---- MODULE Spec2Model ----
(***************************************************************************)
(* ChatSphere: the provider webhook (handshake GET, event POST), the test  *)
(* injection endpoint, outbound send and conversation creation, modelled   *)
(* from server/routes.ts, server/providers/base.ts, server/storage.ts and  *)
(* server/index.ts.                                                        *)
(*                                                                         *)
(* Strings whose characters matter (paths) are sequences of tokens: "/",   *)
(* " " and words; the word "webhook" is the literal text webhook, so that  *)
(* startsWith("/webhook") is "the first two tokens are / and webhook".     *)
(* A request handler is a process that advances one storage call at a      *)
(* time: each action is one awaited call together with the synchronous     *)
(* code that follows it up to the next await.                              *)
(***************************************************************************)
EXTENDS Integers, Sequences, FiniteSets, TLC

VARIABLES
    metaWebhookPath,  \* routes.ts:163 in-memory path used for routing
    stored,           \* app_settings["defaultWhatsappInstance"] or NULL
    env,              \* process.env META_* values
    dbUp,             \* whether storage calls currently succeed
    clock,            \* wall clock read by new Date()
    conversations,    \* rows of table conversations
    messages,         \* rows of table messages
    webhookEvents,    \* rows of table webhook_events (the journal)
    apiControls,      \* app_settings["apiControls"].testWebhookEnabled, if set
    req,              \* the in-flight and finished requests
    sigReq,           \* the last POST seen by the signature gate
    putReq,           \* the admin PUT /api/admin/webhook-config, in flight or done
    routed,           \* the last request seen by the webhook catch-all
    calc,             \* a pure function under study: its input and results
    ws,               \* the WebSocket server: wsClients and its connections
    adm               \* the admin requests in flight or done, and what they persist

vars == <<metaWebhookPath, stored, env, dbUp, clock, conversations, messages,
          webhookEvents, ws, adm, apiControls, req, sigReq, putReq, routed, calc>>

NULL == "null"

\* ------------------------------------------------------------------ bounds
MaxClock == 2
MaxPathLen == 3

\* -------------------------------------------------------------- path strings
SLASH == "/"
SPACE == " "
WEBHOOK == "webhook"
PathTokens == {SLASH, SPACE, WEBHOOK, "meta"}

RECURSIVE TrimLeft(_)
TrimLeft(s) == IF s # <<>> /\ Head(s) = SPACE THEN TrimLeft(Tail(s)) ELSE s

RECURSIVE TrimRight(_)
TrimRight(s) ==
    IF s # <<>> /\ s[Len(s)] = SPACE THEN TrimRight(SubSeq(s, 1, Len(s) - 1)) ELSE s

Trim(s) == TrimRight(TrimLeft(s))

\* replace(/\/{2,}/g, "/")
RECURSIVE CollapseSlashes(_)
CollapseSlashes(s) ==
    IF Len(s) < 2 THEN s
    ELSE IF s[1] = SLASH /\ s[2] = SLASH THEN CollapseSlashes(Tail(s))
    ELSE <<Head(s)>> \o CollapseSlashes(Tail(s))

\* replace(/\/+$/, "")
RECURSIVE StripTrailingSlashes(_)
StripTrailingSlashes(s) ==
    IF s # <<>> /\ s[Len(s)] = SLASH
    THEN StripTrailingSlashes(SubSeq(s, 1, Len(s) - 1))
    ELSE s

StartsWithSlash(s) == s # <<>> /\ s[1] = SLASH
StartsWithWebhook(s) == Len(s) >= 2 /\ s[1] = SLASH /\ s[2] = WEBHOOK
StartsWithWebhookSlash(s) == Len(s) >= 3 /\ StartsWithWebhook(s) /\ s[3] = SLASH

FallbackPath == <<SLASH, WEBHOOK, SLASH, "meta">>

normalizeWebhookPath(inputPath) ==
    IF Trim(inputPath) = <<>> THEN FallbackPath
    ELSE
      LET n1 == Trim(inputPath)
          n2 == IF StartsWithSlash(n1) THEN n1 ELSE <<SLASH>> \o n1
          n3 == CollapseSlashes(n2)
          n4 == IF Len(n3) > 1 /\ n3[Len(n3)] = SLASH
                THEN StripTrailingSlashes(n3) ELSE n3
          n5 == IF StartsWithWebhook(n4) THEN n4
                ELSE <<SLASH, WEBHOOK>> \o (IF n4 = <<SLASH>> THEN <<>> ELSE n4)
      IN IF n5 = <<>> THEN FallbackPath ELSE n5

normalizeForComparison(value) ==
    IF value = <<>> THEN <<SLASH>>
    ELSE
      LET n1 == IF StartsWithSlash(value) THEN value ELSE <<SLASH>> \o value
          n2 == CollapseSlashes(n1)
          n3 == IF Len(n2) > 1 /\ n2[Len(n2)] = SLASH
                THEN StripTrailingSlashes(n2) ELSE n2
      IN IF n3 = <<>> THEN <<SLASH>> ELSE n3

pathsMatchMetaWebhook_Exact(pathToCheck, configured) == pathToCheck = configured

pathsMatchMetaWebhook(pathToCheck, configured) ==
    normalizeForComparison(pathToCheck) = normalizeForComparison(configured)

RECURSIVE SeqsUpTo(_, _)
SeqsUpTo(S, n) ==
    IF n = 0 THEN {<<>>}
    ELSE LET shorter == SeqsUpTo(S, n - 1)
         IN shorter \cup {<<x>> \o s : x \in S, s \in {t \in shorter : Len(t) = n - 1}}

\* what an admin may type as the webhook path
PathInputs == SeqsUpTo(PathTokens, MaxPathLen)
\* the paths the router can hold: always a result of normalizeWebhookPath
ConfiguredPaths == {normalizeWebhookPath(p) : p \in PathInputs}

\* ------------------------------------------------------------ optional values
\* null / undefined is NULL for a string and None for a structured value
None == <<>>
Some(x) == <<x>>
IsSome(o) == o # <<>>
The(o) == o[1]

\* ------------------------------------------------------- provider settings
Falsy(v) == v = NULL \/ v = ""
OrElse(a, b) == IF Falsy(a) THEN b ELSE a

EnvEmpty == [META_TOKEN |-> "", META_PHONE_NUMBER_ID |-> "",
             META_VERIFY_TOKEN |-> "", META_APP_SECRET |-> ""]
EnvFull == [META_TOKEN |-> "etok", META_PHONE_NUMBER_ID |-> "epn",
            META_VERIFY_TOKEN |-> "abc", META_APP_SECRET |-> "k1"]
EnvChoices == {EnvEmpty, EnvFull}

StoredFull == [phoneNumberId |-> "pn", accessToken |-> "tok",
               webhookVerifyToken |-> "abc", appSecret |-> "k1", isActive |-> TRUE]
StoredBare == [phoneNumberId |-> "pn", accessToken |-> "tok",
               webhookVerifyToken |-> NULL, appSecret |-> NULL, isActive |-> TRUE]
StoredOff == [StoredFull EXCEPT !.isActive = FALSE]
StoredChoices == {None, Some(StoredFull), Some(StoredBare), Some(StoredOff)}
\* the settings the webhook handlers are run under: nothing configured, a
\* stored instance with secret and verify token, a disabled instance, and
\* the environment alone
Configs == {<<None, EnvEmpty>>, <<Some(StoredFull), EnvEmpty>>,
            <<Some(StoredOff), EnvEmpty>>, <<None, EnvFull>>}

getDefaultWhatsappInstance_Boot(st, e) ==
    Some([phoneNumberId |-> StoredFull.phoneNumberId,
          accessToken |-> StoredFull.accessToken,
          webhookVerifyToken |-> StoredFull.webhookVerifyToken,
          appSecret |-> StoredFull.appSecret,
          isActive |-> StoredFull.isActive, source |-> "custom"])

getDefaultWhatsappInstance(st, e) ==
    IF IsSome(st)
    THEN Some([phoneNumberId |-> OrElse(The(st).phoneNumberId, ""),
               accessToken |-> OrElse(The(st).accessToken, ""),
               webhookVerifyToken |-> The(st).webhookVerifyToken,
               appSecret |-> The(st).appSecret,
               isActive |-> The(st).isActive, source |-> "custom"])
    ELSE IF ~Falsy(e.META_TOKEN) \/ ~Falsy(e.META_PHONE_NUMBER_ID)
    THEN Some([phoneNumberId |-> OrElse(e.META_PHONE_NUMBER_ID, ""),
               accessToken |-> OrElse(e.META_TOKEN, ""),
               webhookVerifyToken |-> OrElse(e.META_VERIFY_TOKEN, NULL),
               appSecret |-> OrElse(e.META_APP_SECRET, NULL),
               isActive |-> TRUE, source |-> "env"])
    ELSE None

\* new MetaProvider(token, phoneNumberId, verifyToken, appSecret)
MetaProvider(token, phoneNumberId, verifyToken, appSecret, e) ==
    [token |-> OrElse(token, OrElse(e.META_TOKEN, "")),
     phoneNumberId |-> OrElse(phoneNumberId, OrElse(e.META_PHONE_NUMBER_ID, "")),
     verifyToken |-> OrElse(verifyToken, OrElse(e.META_VERIFY_TOKEN, "")),
     appSecret |-> OrElse(appSecret, OrElse(e.META_APP_SECRET, ""))]

\* the result of createMetaProvider once getDefaultWhatsappInstance returned
createMetaProvider(st, e) ==
    LET instance == getDefaultWhatsappInstance(st, e) IN
    IF IsSome(instance)
    THEN IF The(instance).isActive = FALSE
            \/ Falsy(The(instance).accessToken) \/ Falsy(The(instance).phoneNumberId)
         THEN [threw |-> TRUE, provider |-> None, instance |-> instance]
         ELSE [threw |-> FALSE,
               provider |-> Some(MetaProvider(The(instance).accessToken,
                                              The(instance).phoneNumberId,
                                              The(instance).webhookVerifyToken,
                                              The(instance).appSecret, e)),
               instance |-> instance]
    ELSE [threw |-> FALSE,
          provider |-> Some(MetaProvider(e.META_TOKEN, e.META_PHONE_NUMBER_ID,
                                         e.META_VERIFY_TOKEN, e.META_APP_SECRET, e)),
          instance |-> None]

hasAppSecret(instance, e) ==
    (IsSome(instance) /\ ~Falsy(The(instance).appSecret)) \/ ~Falsy(e.META_APP_SECRET)

\* ------------------------------------------------------------ request body
Phones == {"p1", "p2"}

\* a provider envelope: entry[].changes[].value.messages[]; has* tells whether
\* the property is there at all
Msg(from, type) == [from |-> from, type |-> type]
Change(hasValue, hasMessages, msgs) ==
    [hasValue |-> hasValue, hasMessages |-> hasMessages, messages |-> msgs]
Entry(hasChanges, changes) == [hasChanges |-> hasChanges, changes |-> changes]
Envelope(hasEntry, entries) == [hasEntry |-> hasEntry, entry |-> entries]

EmptyObject == Envelope(FALSE, <<>>)
WithMessages(msgs) == Envelope(TRUE, <<Entry(TRUE, <<Change(TRUE, TRUE, msgs)>>)>>)
PayloadStatusOnly == Envelope(TRUE, <<Entry(TRUE, <<Change(TRUE, FALSE, <<>>)>>)>>)
PayloadOne == WithMessages(<<Msg("p1", "text")>>)
PayloadTwo == WithMessages(<<Msg("p1", "text"), Msg("p2", "image")>>)
Payloads == {PayloadStatusOnly, PayloadOne, PayloadTwo}

\* Request bytes: a JSON text of doc, written compactly (as JSON.stringify
\* writes it), with insignificant whitespace ("spaced"), or no bytes at all
\* ("empty"); bad tells whether a string literal in it holds an invalid UTF-8
\* sequence ("invalid"), the bytes of U+FFFD in its place ("fffd"), or neither.
JsonBytes(doc, fmt, bad) == [doc |-> doc, fmt |-> fmt, bad |-> bad]
EMPTY == JsonBytes(EmptyObject, "empty", "none")

JsonParse(bytes) == bytes.doc
JsonStringify(doc) == JsonBytes(doc, "compact", "none")

\* buf.toString('utf8') followed by the UTF-8 encoding hmac.update(string)
\* applies: an invalid sequence is replaced by U+FFFD
Utf8RoundTrip(bytes) ==
    IF bytes.bad = "invalid" THEN [bytes EXCEPT !.bad = "fffd"] ELSE bytes

\* express.json(): parses a non-empty body of a JSON content type and calls
\* verify on it; any other request keeps req.body = {} and no rawBody
BodyParsed(contentType, bytes) == contentType = "json" /\ bytes # EMPTY

RawBodyOf(path, contentType, bytes) ==
    IF BodyParsed(contentType, bytes) /\ StartsWithWebhookSlash(path)
    THEN Some(Utf8RoundTrip(bytes))
    ELSE None

ParsedBodyOf(contentType, bytes) ==
    IF BodyParsed(contentType, bytes) THEN JsonParse(bytes) ELSE EmptyObject

\* const rawBody = req.rawBody || JSON.stringify(req.body)
SignedInput(rawBody, body) == IF IsSome(rawBody) THEN The(rawBody) ELSE JsonStringify(body)

\* ---------------------------------------------------------------- signature
\* HMAC-SHA256 as an ideal keyed digest: equal digests iff equal key and data
Hmac(key, data) == [key |-> key, data |-> data]

\* the header "sha256=<hex>": prefixes counts the leading "sha256=" texts
SigHeader(prefixes, digest) == [prefixes |-> prefixes, hex |-> digest]

\* String.prototype.replace("sha256=", ""): removes the first occurrence
RemoveFirstPrefix(h) ==
    IF h.prefixes > 0 THEN [h EXCEPT !.prefixes = @ - 1] ELSE h

\* timingSafeEqual throws on buffers of different length, which the catch
\* turns into false: the comparison is equality of the two texts
HexEquals(h, expected) == h.prefixes = 0 /\ h.hex = expected

verifyWebhookSignature_MissingHeaderPasses(appSecret, signature, rawBody) ==
    IF ~IsSome(signature) THEN TRUE
    ELSE IF Falsy(appSecret) THEN TRUE
    ELSE HexEquals(RemoveFirstPrefix(The(signature)), Hmac(appSecret, rawBody))

verifyWebhookSignature(appSecret, signature, rawBody) ==
    IF ~IsSome(signature) THEN Falsy(appSecret)
    ELSE IF Falsy(appSecret) THEN TRUE
    ELSE HexEquals(RemoveFirstPrefix(The(signature)), Hmac(appSecret, rawBody))

\* routes.ts:759-781: "error" when createMetaProvider throws, else whether
\* the request goes on ("pass") or is rejected with 401 ("fail")
SignatureGate(st, e, signature, rawBody, body) ==
    LET made == createMetaProvider(st, e) IN
    IF made.threw THEN "error"
    ELSE IF hasAppSecret(made.instance, e)
    THEN IF verifyWebhookSignature(The(made.provider).appSecret, signature,
                                   SignedInput(rawBody, body))
         THEN "pass" ELSE "fail"
    ELSE "pass"

\* ------------------------------------------------------------------ parser
\* a null where an entry, a change or a message object is expected
NullElement == [isNull |-> TRUE]
IsNull(x) == "isNull" \in DOMAIN x

\* change.value.messages read without the optional chaining of line 193
ChangeThrows_NoOptionalChaining(change) == IsNull(change) \/ ~change.hasValue

\* reading a property of null throws a TypeError: msg.from, change.value,
\* entry.changes
ChangeThrows(change) ==
    \/ IsNull(change)
    \/ /\ change.hasValue /\ change.hasMessages
       /\ \E i \in 1..Len(change.messages) : IsNull(change.messages[i])

EntryThrows(entry) ==
    \/ IsNull(entry)
    \/ /\ entry.hasChanges
       /\ \E i \in 1..Len(entry.changes) : ChangeThrows(entry.changes[i])

parseIncomingThrows(payload) ==
    payload.hasEntry /\ \E i \in 1..Len(payload.entry) : EntryThrows(payload.entry[i])

RECURSIVE FlatMap(_, _)
FlatMap(Op(_), xs) == IF xs = <<>> THEN <<>> ELSE Op(Head(xs)) \o FlatMap(Op, Tail(xs))

\* one canonical event per provider message, of any type (events.push is
\* outside the type chain)
EventOf(msg) == <<[from |-> msg.from, raw |-> msg]>>

EventsOfChange(change) ==
    IF change.hasValue /\ change.hasMessages
    THEN FlatMap(EventOf, change.messages) ELSE <<>>

EventsOfEntry(entry) ==
    IF ~entry.hasChanges THEN <<>> ELSE FlatMap(EventsOfChange, entry.changes)

parseIncoming(payload) ==
    IF ~payload.hasEntry THEN <<>> ELSE FlatMap(EventsOfEntry, payload.entry)

\* ----------------------------------------------------------------- storage
Requests == {1, 2}

\* gen_random_uuid(): the k-th row a request inserts gets an id of its own
RowId(r, k) == 10 * r + k

getConversationByPhone(convs, phone) ==
    IF \E c \in convs : c.phone = phone
    THEN Some(CHOOSE c \in convs : c.phone = phone) ELSE None

createConversation_NoUniqueIndex(convs, id, phone) ==
    [threw |-> FALSE,
     rows |-> convs \cup {[id |-> id, phone |-> phone, lastAt |-> 0]}]

\* INSERT INTO conversations: phone is UNIQUE, lastAt starts null (0)
createConversation(convs, id, phone) ==
    IF \E c \in convs : c.phone = phone
    THEN [threw |-> TRUE, rows |-> convs]
    ELSE [threw |-> FALSE,
          rows |-> convs \cup {[id |-> id, phone |-> phone, lastAt |-> 0]}]

\* INSERT INTO messages: conversation_id REFERENCES conversations(id) and
\* reply_to_message_id REFERENCES messages(id); replyTo = 0 is a null column
createMessage(msgs, convs, id, conversationId, direction, status, replyTo) ==
    IF \/ ~\E c \in convs : c.id = conversationId
       \/ (replyTo # 0 /\ ~\E m \in msgs : m.id = replyTo)
    THEN [threw |-> TRUE, rows |-> msgs]
    ELSE [threw |-> FALSE,
          rows |-> msgs \cup {[id |-> id, conversationId |-> conversationId,
                               direction |-> direction, status |-> status,
                               replyTo |-> replyTo]}]

\* SELECT * FROM messages WHERE id
getMessageById(msgs, id) ==
    IF \E m \in msgs : m.id = id
    THEN Some(CHOOSE m \in msgs : m.id = id) ELSE None

SetNullReplies_Kept(msgs, gone) == msgs

\* reply_to_message_id ... ON DELETE SET NULL: rows that pointed at a
\* deleted row keep living with a null reference
SetNullReplies(msgs, gone) ==
    {IF m.replyTo \in gone THEN [m EXCEPT !.replyTo = 0] ELSE m : m \in msgs}

\* DELETE FROM messages WHERE id
deleteMessage(msgs, id) ==
    SetNullReplies({m \in msgs : m.id # id}, {id})

\* UPDATE conversations SET last_at = <the Date made by the caller> WHERE id
updateConversationLastAt(convs, id, ts) ==
    {IF c.id = id THEN [c EXCEPT !.lastAt = ts] ELSE c : c \in convs}

\* ON DELETE CASCADE removes the conversation's messages
deleteConversation(convs, msgs, id) ==
    [convs |-> {c \in convs : c.id # id},
     msgs |-> SetNullReplies({m \in msgs : m.conversationId # id},
                             {m.id : m \in {x \in msgs : x.conversationId = id}})]

logWebhookEvent_Dropped(events, id, status) == events

logWebhookEvent(events, id, status) == events \cup {[id |-> id, status |-> status]}

\* ---------------------------------------------------------------- requests
\* req.query of a GET: hub.mode, whether hub.challenge is there, hub.verify_token
Query(mode, challenge, token) == [mode |-> mode, challenge |-> challenge, token |-> token]
NoQuery == Query("", FALSE, NULL)
Queries == {NoQuery, Query("subscribe", TRUE, "abc"), Query("subscribe", TRUE, "wrong")}

IdleReq ==
    [kind |-> "idle", pc |-> "idle",
     path |-> <<>>, bytes |-> EMPTY, sig |-> None,      \* event POST
     query |-> NoQuery,                                    \* handshake GET
     phone |-> "",                                      \* test, send, conversations
     replyTo |-> 0, target |-> None,                    \* send: replyToMessageId
     flagRead |-> None, readFlag |-> FALSE,             \* test: apiControls as read
     instance |-> None, provider |-> None,              \* what createMetaProvider gave
     startDone |-> 0, readWrites |-> 0,                 \* instance updates done at start, written at the read
     idx |-> 0, conv |-> 0, msg |-> 0, ts |-> 0,        \* locals
     status |-> "", intended |-> 0,
     sigFailed |-> FALSE, journalThrew |-> 0,           \* what happened so far
     conflict |-> FALSE,                                \* insert hit UNIQUE(phone)
     fkViolation |-> FALSE,                             \* insert hit a foreign key
     sendThrew |-> FALSE,                               \* provider.send rejected
     storageThrew |-> FALSE,                            \* a call found storage unreachable
     nConvs |-> 0, nMsgs |-> 0, nJournal |-> 0,
     nProvider |-> 0,                                   \* createMetaProvider calls
     bcast |-> <<>>, responses |-> <<>>]

Respond(q, status, body) ==
    [q EXCEPT !.responses = Append(@, [status |-> status, body |-> body]),
              !.pc = "done"]

\* broadcastMessage(event, message): the publish calls of a request, in order
Broadcast(q, event, msgId) ==
    [q EXCEPT !.bcast = Append(@, [event |-> event, id |-> msgId])]

\* a storage call other than a journal write rejects: storage is unreachable
Unreachable(q) == [q EXCEPT !.storageThrew = TRUE]

\* the request has called createMetaProvider once more: what it got, and
\* how many instance updates had been written by then
Called(q) ==
    LET made == createMetaProvider(stored, env) IN
    [q EXCEPT !.nProvider = @ + 1,
              !.instance = made.instance, !.provider = made.provider,
              !.readWrites = Len(adm.writes)]

\* the request starts: how many instance updates have completed by now
Started(q) == [q EXCEPT !.startDone = adm.nDone]

At(r, kind, pc) == req[r].kind = kind /\ req[r].pc = pc

\* requests are numbered in the order they arrive
Arrives(r) == req[r].kind = "idle" /\ \A s \in Requests : s < r => req[s].kind # "idle"

Unchanged_Config ==
    UNCHANGED <<metaWebhookPath, stored, env, dbUp, clock, apiControls, sigReq,
                putReq, routed, calc, ws, adm>>

\* ------------------------------------------------- event POST (routes.ts:751)
EventBody(q) == ParsedBodyOf("json", q.bytes)
EventsOf(q) == parseIncoming(EventBody(q))

EventAt_Reversed(events, idx) == events[Len(events) + 1 - idx]

\* for (const event of events): the idx-th pass takes the idx-th element
EventAt(events, idx) == events[idx]

\* the catch of handleMetaWebhookEvent awaits a journal write of its own
EventCaught(q) == [q EXCEPT !.pc = "logErr"]

EventProvider(r) ==
    /\ At(r, "event", "provider")
    /\ LET q == Called(req[r])
           gate == SignatureGate(stored, env, q.sig,
                                 RawBodyOf(q.path, "json", q.bytes), EventBody(q))
       IN req' = [req EXCEPT ![r] =
            IF ~dbUp \/ gate = "error"
            THEN EventCaught([q EXCEPT !.storageThrew = ~dbUp])
            ELSE IF gate = "fail"
            THEN [q EXCEPT !.pc = "logReply", !.intended = 401, !.sigFailed = TRUE]
            ELSE IF parseIncomingThrows(EventBody(q)) THEN EventCaught(q)
            ELSE IF Len(EventsOf(q)) = 0
            THEN [q EXCEPT !.pc = "logReply", !.intended = 200]
            ELSE [q EXCEPT !.pc = "getConv", !.idx = 1]]
    /\ UNCHANGED <<conversations, messages, webhookEvents>>
    /\ Unchanged_Config

\* the journal write before the 401 and before "ok - no events"
EventLogReply(r) ==
    /\ At(r, "event", "logReply")
    /\ LET q == req[r] IN
       IF dbUp
       THEN /\ webhookEvents' = logWebhookEvent(webhookEvents,
                                                RowId(r, q.nJournal + 1), q.intended)
            /\ req' = [req EXCEPT ![r] =
                 Respond([q EXCEPT !.nJournal = IF webhookEvents' # webhookEvents
                                                 THEN @ + 1 ELSE @],
                         q.intended,
                         IF q.intended = 401 THEN "Invalid signature"
                         ELSE "ok - no events")]
       ELSE /\ req' = [req EXCEPT ![r] =
                 EventCaught([q EXCEPT !.journalThrew = q.intended])]
            /\ UNCHANGED webhookEvents
    /\ UNCHANGED <<conversations, messages>>
    /\ Unchanged_Config

EventGetConv(r) ==
    /\ At(r, "event", "getConv")
    /\ LET q == req[r]
           found == getConversationByPhone(conversations, EventAt(EventsOf(q), q.idx).from)
       IN req' = [req EXCEPT ![r] =
            IF ~dbUp THEN EventCaught(Unreachable(q))
            ELSE IF IsSome(found)
            THEN [q EXCEPT !.conv = The(found).id, !.pc = "createMsg"]
            ELSE [q EXCEPT !.pc = "createConv"]]
    /\ UNCHANGED <<conversations, messages, webhookEvents>>
    /\ Unchanged_Config

EventCreateConv(r) ==
    /\ At(r, "event", "createConv")
    /\ LET q == req[r]
           id == RowId(r, q.nConvs + 1)
           made == createConversation(conversations, id, EventAt(EventsOf(q), q.idx).from)
       IN IF ~dbUp \/ made.threw
          THEN /\ req' = [req EXCEPT ![r] =
                    EventCaught([q EXCEPT !.conflict = dbUp /\ made.threw,
                                      !.storageThrew = ~dbUp])]
               /\ UNCHANGED conversations
          ELSE /\ conversations' = made.rows
               /\ req' = [req EXCEPT ![r] =
                    [q EXCEPT !.conv = id, !.nConvs = @ + 1, !.pc = "createMsg"]]
    /\ UNCHANGED <<messages, webhookEvents>>
    /\ Unchanged_Config

EventCreateMsg(r) ==
    /\ At(r, "event", "createMsg")
    /\ LET q == req[r]
           id == RowId(r, q.nMsgs + 1)
           made == createMessage(messages, conversations, id, q.conv,
                                 "inbound", "received", 0)
       IN IF ~dbUp \/ made.threw
          THEN /\ req' = [req EXCEPT ![r] =
                    EventCaught([q EXCEPT !.storageThrew = ~dbUp,
                                      !.fkViolation = dbUp /\ made.threw])]
               /\ UNCHANGED messages
          ELSE /\ messages' = made.rows
               /\ req' = [req EXCEPT ![r] =
                    [q EXCEPT !.msg = id, !.nMsgs = @ + 1, !.pc = "logEvent"]]
    /\ UNCHANGED <<conversations, webhookEvents>>
    /\ Unchanged_Config

\* the per-message journal write; updateConversationLastAt is called next and
\* makes its Date then
EventLogEvent(r) ==
    /\ At(r, "event", "logEvent")
    /\ LET q == req[r] IN
       IF dbUp
       THEN /\ webhookEvents' = logWebhookEvent(webhookEvents,
                                                RowId(r, q.nJournal + 1), 200)
            /\ req' = [req EXCEPT ![r] =
                 [q EXCEPT !.nJournal = IF webhookEvents' # webhookEvents
                                        THEN @ + 1 ELSE @,
                           !.ts = clock, !.pc = "updateLastAt"]]
       ELSE /\ req' = [req EXCEPT ![r] = EventCaught([q EXCEPT !.journalThrew = 200])]
            /\ UNCHANGED webhookEvents
    /\ UNCHANGED <<conversations, messages>>
    /\ Unchanged_Config

\* the activity update, the broadcast, and the next message or the reply
EventUpdateLastAt(r) ==
    /\ At(r, "event", "updateLastAt")
    /\ LET q == req[r] IN
       IF dbUp
       THEN /\ conversations' = updateConversationLastAt(conversations, q.conv, q.ts)
            /\ req' = [req EXCEPT ![r] =
                 LET b == Broadcast(q, "message_incoming", q.msg) IN
                 IF q.idx < Len(EventsOf(q))
                 THEN [b EXCEPT !.idx = @ + 1, !.pc = "getConv"]
                 ELSE Respond(b, 200, "ok")]
       ELSE /\ req' = [req EXCEPT ![r] = EventCaught(Unreachable(q))]
            /\ UNCHANGED conversations
    /\ UNCHANGED <<messages, webhookEvents>>
    /\ Unchanged_Config

\* A rejection that escapes an async handler: Express 4 leaves the request
\* unanswered; Express 5 hands it to the error middleware (index.ts:72),
\* which answers 500.
Escaped(q, express5) ==
    IF express5 THEN Respond(q, 500, "message")
    ELSE [q EXCEPT !.pc = "done"]

\* catch: journal the failure, then answer 500
EventLogErr(r) ==
    /\ At(r, "event", "logErr")
    /\ LET q == req[r] IN
       IF dbUp
       THEN /\ webhookEvents' = logWebhookEvent(webhookEvents,
                                                RowId(r, q.nJournal + 1), 500)
            /\ req' = [req EXCEPT ![r] =
                 Respond([q EXCEPT !.nJournal = IF webhookEvents' # webhookEvents
                                                 THEN @ + 1 ELSE @],
                         500, "error")]
       ELSE /\ \E express5 \in BOOLEAN :
                 req' = [req EXCEPT ![r] =
                    Escaped([q EXCEPT !.journalThrew = IF @ = 0 THEN 500 ELSE @],
                            express5)]
            /\ UNCHANGED webhookEvents
    /\ UNCHANGED <<conversations, messages>>
    /\ Unchanged_Config

\* ---------------------------------------------- handshake GET (routes.ts:677)
isVerificationAttempt_AnyGet(query) == TRUE

isVerificationAttempt(query) == query.mode = "subscribe" /\ query.challenge

expectedToken_EnvOnly(instance, e) == e.META_VERIFY_TOKEN

\* instance?.webhookVerifyToken ?? process.env.META_VERIFY_TOKEN ?? ""
expectedToken(instance, e) ==
    IF IsSome(instance) /\ The(instance).webhookVerifyToken # NULL
    THEN The(instance).webhookVerifyToken
    ELSE e.META_VERIFY_TOKEN

VerifyCaught(q) == [q EXCEPT !.pc = "logErr"]

VerifyProvider(r) ==
    /\ At(r, "verify", "provider")
    /\ LET q == Called(req[r])
           made == createMetaProvider(stored, env)
           expected == expectedToken(made.instance, env)
       IN req' = [req EXCEPT ![r] =
            IF ~dbUp \/ made.threw
            THEN VerifyCaught([q EXCEPT !.storageThrew = ~dbUp])
            ELSE IF Falsy(expected) THEN [q EXCEPT !.pc = "logReply", !.intended = 500]
            ELSE IF q.query.token # expected THEN [q EXCEPT !.pc = "logReply", !.intended = 403]
            ELSE [q EXCEPT !.pc = "logReply", !.intended = 200]]
    /\ UNCHANGED <<conversations, messages, webhookEvents>>
    /\ Unchanged_Config

VerifyReplyBody(status) ==
    IF status = 500 THEN "Verify token is not configured"
    ELSE IF status = 403 THEN "Forbidden"
    ELSE "challenge"

\* the journal write before each of the three handshake replies
VerifyLogReply(r) ==
    /\ At(r, "verify", "logReply")
    /\ LET q == req[r] IN
       IF dbUp
       THEN /\ webhookEvents' = logWebhookEvent(webhookEvents,
                                                RowId(r, q.nJournal + 1), q.intended)
            /\ req' = [req EXCEPT ![r] =
                 Respond([q EXCEPT !.nJournal = IF webhookEvents' # webhookEvents
                                                 THEN @ + 1 ELSE @],
                         q.intended, VerifyReplyBody(q.intended))]
       ELSE /\ req' = [req EXCEPT ![r] =
                 VerifyCaught([q EXCEPT !.journalThrew = q.intended])]
            /\ UNCHANGED webhookEvents
    /\ UNCHANGED <<conversations, messages>>
    /\ Unchanged_Config

VerifyLogErr(r) ==
    /\ At(r, "verify", "logErr")
    /\ LET q == req[r] IN
       IF dbUp
       THEN /\ webhookEvents' = logWebhookEvent(webhookEvents,
                                                RowId(r, q.nJournal + 1), 500)
            /\ req' = [req EXCEPT ![r] =
                 Respond([q EXCEPT !.nJournal = IF webhookEvents' # webhookEvents
                                                 THEN @ + 1 ELSE @],
                         500, "Error")]
       ELSE /\ \E express5 \in BOOLEAN :
                 req' = [req EXCEPT ![r] =
                    Escaped([q EXCEPT !.journalThrew = IF @ = 0 THEN 500 ELSE @],
                            express5)]
            /\ UNCHANGED webhookEvents
    /\ UNCHANGED <<conversations, messages>>
    /\ Unchanged_Config

\* ------------------------------------------- the catch-all (routes.ts:863)
TestPath == <<SLASH, WEBHOOK, SLASH, "test">>
SendPath == <<SLASH, "api", SLASH, "message", SLASH, "send">>
ConversationsPath == <<SLASH, "api", SLASH, "conversations">>
DebugPath == <<SLASH, WEBHOOK, SLASH, "debug">>

Route(method, path, configured) ==
    IF pathsMatchMetaWebhook(path, configured)
    THEN IF method = "GET" THEN "verify"
         ELSE IF method = "POST" THEN "event"
         ELSE "other"
    ELSE IF method = "POST" /\ path = DebugPath THEN "debug"
    ELSE IF method = "POST" /\ path = TestPath THEN "test"
    ELSE IF method = "POST" /\ path = SendPath THEN "send"
    ELSE IF method = "POST" /\ path = ConversationsPath THEN "conv"
    ELSE "none"

EventBytes == {JsonBytes(p, "compact", "none") : p \in Payloads}
\* the sender signs the bytes it sends with the key it holds, or sends no header
EventSigs(bytes) == {None, Some(SigHeader(1, Hmac("k1", bytes)))}

DispatchEvent(r, path, bytes, sig) ==
    /\ Arrives(r)
    /\ Route("POST", path, metaWebhookPath) = "event"
    /\ req' = [req EXCEPT ![r] =
         [Started(IdleReq) EXCEPT !.kind = "event", !.pc = "provider",
                         !.path = path, !.bytes = bytes, !.sig = sig]]
    /\ UNCHANGED <<conversations, messages, webhookEvents>>
    /\ Unchanged_Config

DispatchVerify(r, path, query) ==
    /\ Arrives(r)
    /\ Route("GET", path, metaWebhookPath) = "verify"
    /\ req' = [req EXCEPT ![r] =
         LET q == [Started(IdleReq) EXCEPT !.kind = "verify", !.pc = "provider",
                                  !.path = path, !.query = query]
         IN IF ~isVerificationAttempt(query)
            THEN Respond(q, 200, "Meta webhook endpoint is online")
            ELSE q]
    /\ UNCHANGED <<conversations, messages, webhookEvents>>
    /\ Unchanged_Config

DispatchOther(r, path) ==
    /\ Arrives(r)
    /\ Route("PUT", path, metaWebhookPath) = "other"
    /\ req' = [req EXCEPT ![r] =
         Respond([IdleReq EXCEPT !.kind = "other", !.path = path],
                 405, "Method Not Allowed")]
    /\ UNCHANGED <<conversations, messages, webhookEvents>>
    /\ Unchanged_Config

\* ------------------------------------- POST /webhook/test (routes.ts:1008)
\* the catch of a REST-style handler answers 500 at once
Fail500_Announces(q) == Broadcast(Respond(q, 500, "error"), "message_outgoing", q.msg)

Fail500(q) == Respond(q, 500, "error")

testWebhookEnabledOf_AlwaysOn(controls) == TRUE

\* (await storage.getAppSetting('apiControls')) || { testWebhookEnabled: true }
testWebhookEnabledOf(controls) == IF IsSome(controls) THEN The(controls) ELSE TRUE

TestControls(r) ==
    /\ At(r, "test", "controls")
    /\ LET q == [req[r] EXCEPT !.flagRead = IF dbUp THEN apiControls ELSE None,
                               !.readFlag = dbUp]
           testWebhookEnabled == testWebhookEnabledOf(apiControls)
       IN req' = [req EXCEPT ![r] =
            IF ~dbUp THEN Fail500(Unreachable(q))
            ELSE IF ~testWebhookEnabled THEN Respond(q, 403, "Test webhooks are disabled")
            ELSE IF Falsy(q.phone) THEN Respond(q, 400, "'from' (phone) is required")
            ELSE [q EXCEPT !.pc = "getConv"]]
    /\ UNCHANGED <<conversations, messages, webhookEvents>>
    /\ Unchanged_Config

TestGetConv(r) ==
    /\ At(r, "test", "getConv")
    /\ LET q == req[r]
           found == getConversationByPhone(conversations, q.phone)
       IN req' = [req EXCEPT ![r] =
            IF ~dbUp THEN Fail500(Unreachable(q))
            ELSE IF IsSome(found)
            THEN [q EXCEPT !.conv = The(found).id, !.pc = "createMsg"]
            ELSE [q EXCEPT !.pc = "createConv"]]
    /\ UNCHANGED <<conversations, messages, webhookEvents>>
    /\ Unchanged_Config

TestCreateConv(r) ==
    /\ At(r, "test", "createConv")
    /\ LET q == req[r]
           id == RowId(r, q.nConvs + 1)
           made == createConversation(conversations, id, q.phone)
       IN IF ~dbUp \/ made.threw
          THEN /\ req' = [req EXCEPT ![r] =
                    Fail500([q EXCEPT !.conflict = dbUp /\ made.threw,
                                      !.storageThrew = ~dbUp])]
               /\ UNCHANGED conversations
          ELSE /\ conversations' = made.rows
               /\ req' = [req EXCEPT ![r] =
                    [q EXCEPT !.conv = id, !.nConvs = @ + 1, !.pc = "createMsg"]]
    /\ UNCHANGED <<messages, webhookEvents>>
    /\ Unchanged_Config

\* createMessage; updateConversationLastAt is called next and makes its Date
TestCreateMsg(r) ==
    /\ At(r, "test", "createMsg")
    /\ LET q == req[r]
           id == RowId(r, q.nMsgs + 1)
           made == createMessage(messages, conversations, id, q.conv,
                                 "inbound", "received", 0)
       IN IF ~dbUp \/ made.threw
          THEN /\ req' = [req EXCEPT ![r] =
                    Fail500([q EXCEPT !.storageThrew = ~dbUp,
                                      !.fkViolation = dbUp /\ made.threw])]
               /\ UNCHANGED messages
          ELSE /\ messages' = made.rows
               /\ req' = [req EXCEPT ![r] =
                    [q EXCEPT !.msg = id, !.nMsgs = @ + 1, !.ts = clock,
                              !.pc = "updateLastAt"]]
    /\ UNCHANGED <<conversations, webhookEvents>>
    /\ Unchanged_Config

TestUpdateLastAt(r) ==
    /\ At(r, "test", "updateLastAt")
    /\ LET q == req[r] IN
       IF dbUp
       THEN /\ conversations' = updateConversationLastAt(conversations, q.conv, q.ts)
            /\ req' = [req EXCEPT ![r] = [q EXCEPT !.pc = "logEvent"]]
       ELSE /\ req' = [req EXCEPT ![r] = Fail500(Unreachable(q))]
            /\ UNCHANGED conversations
    /\ UNCHANGED <<messages, webhookEvents>>
    /\ Unchanged_Config

TestLogEvent(r) ==
    /\ At(r, "test", "logEvent")
    /\ LET q == req[r] IN
       IF dbUp
       THEN /\ webhookEvents' = logWebhookEvent(webhookEvents,
                                                RowId(r, q.nJournal + 1), 200)
            /\ req' = [req EXCEPT ![r] =
                 Respond(Broadcast([q EXCEPT !.nJournal =
                                        IF webhookEvents' # webhookEvents
                                        THEN @ + 1 ELSE @],
                                   "message_incoming", q.msg),
                         200, "ok")]
       ELSE /\ req' = [req EXCEPT ![r] = Fail500([q EXCEPT !.journalThrew = 200])]
            /\ UNCHANGED webhookEvents
    /\ UNCHANGED <<conversations, messages>>
    /\ Unchanged_Config

DispatchTest(r, from) ==
    /\ Arrives(r)
    /\ Route("POST", TestPath, metaWebhookPath) = "test"
    /\ req' = [req EXCEPT ![r] =
         [IdleReq EXCEPT !.kind = "test", !.pc = "controls",
                         !.path = TestPath, !.phone = from]]
    /\ UNCHANGED <<conversations, messages, webhookEvents>>
    /\ Unchanged_Config

\* ------------------------------- POST /api/conversations (routes.ts:454)
ConvGetConv(r) ==
    /\ At(r, "conv", "getConv")
    /\ LET q == req[r]
           found == getConversationByPhone(conversations, q.phone)
       IN req' = [req EXCEPT ![r] =
            IF ~dbUp THEN Fail500(Unreachable(q))
            ELSE IF IsSome(found)
            THEN Respond([q EXCEPT !.conv = The(found).id], 200, "conversation")
            ELSE [q EXCEPT !.pc = "createConv"]]
    /\ UNCHANGED <<conversations, messages, webhookEvents>>
    /\ Unchanged_Config

ConvCreateConv(r) ==
    /\ At(r, "conv", "createConv")
    /\ LET q == req[r]
           id == RowId(r, q.nConvs + 1)
           made == createConversation(conversations, id, q.phone)
       IN IF ~dbUp \/ made.threw
          THEN /\ req' = [req EXCEPT ![r] =
                    Fail500([q EXCEPT !.conflict = dbUp /\ made.threw,
                                      !.storageThrew = ~dbUp])]
               /\ UNCHANGED conversations
          ELSE /\ conversations' = made.rows
               /\ req' = [req EXCEPT ![r] =
                    Respond([q EXCEPT !.conv = id, !.nConvs = @ + 1],
                            200, "conversation")]
    /\ UNCHANGED <<messages, webhookEvents>>
    /\ Unchanged_Config

\* the phone is trimmed and must not be empty
DispatchConv(r, phone) ==
    /\ Arrives(r)
    /\ Route("POST", ConversationsPath, metaWebhookPath) = "conv"
    /\ req' = [req EXCEPT ![r] =
         LET q == [IdleReq EXCEPT !.kind = "conv", !.pc = "getConv",
                                  !.path = ConversationsPath, !.phone = phone]
         IN IF Falsy(phone) THEN Respond(q, 400, "Phone number is required.") ELSE q]
    /\ UNCHANGED <<conversations, messages, webhookEvents>>
    /\ Unchanged_Config

\* ------------------------------- POST /api/message/send (routes.ts:518)
\* a send addressed by `to`, with a body; replyTo = 0 is no reply target

replyRejection_AnyDirection(messageTarget, conversationId) ==
    IF ~IsSome(messageTarget) THEN "Reply target not found."
    ELSE IF The(messageTarget).conversationId # conversationId
    THEN "Reply target belongs to a different conversation."
    ELSE ""

\* the checks on messageTarget (routes.ts:571-585): the error of the 400
\* reply, "" when the target passes
replyRejection(messageTarget, conversationId) ==
    IF ~IsSome(messageTarget) THEN "Reply target not found."
    ELSE IF The(messageTarget).conversationId # conversationId
    THEN "Reply target belongs to a different conversation."
    ELSE IF The(messageTarget).direction # "inbound"
    THEN "You can only reply to incoming messages."
    ELSE ""

\* where the handler goes once it holds the conversation
AfterConversation(q) == IF q.replyTo # 0 THEN "replyTarget" ELSE "provider"

SendGetConv(r) ==
    /\ At(r, "send", "getConv")
    /\ LET q == req[r]
           found == getConversationByPhone(conversations, q.phone)
       IN req' = [req EXCEPT ![r] =
            IF ~dbUp THEN Fail500(Unreachable(q))
            ELSE IF IsSome(found)
            THEN [q EXCEPT !.conv = The(found).id,
                      !.pc = AfterConversation(q)]
            ELSE [q EXCEPT !.pc = "createConv"]]
    /\ UNCHANGED <<conversations, messages, webhookEvents>>
    /\ Unchanged_Config

SendCreateConv(r) ==
    /\ At(r, "send", "createConv")
    /\ LET q == req[r]
           id == RowId(r, q.nConvs + 1)
           made == createConversation(conversations, id, q.phone)
       IN IF ~dbUp \/ made.threw
          THEN /\ req' = [req EXCEPT ![r] =
                    Fail500([q EXCEPT !.conflict = dbUp /\ made.threw,
                                      !.storageThrew = ~dbUp])]
               /\ UNCHANGED conversations
          ELSE /\ conversations' = made.rows
               /\ req' = [req EXCEPT ![r] =
                    [q EXCEPT !.conv = id, !.nConvs = @ + 1,
                              !.pc = AfterConversation(q)]]
    /\ UNCHANGED <<messages, webhookEvents>>
    /\ Unchanged_Config

\* await storage.getMessageById(replyToMessageId), then the three checks
SendGetReplyTarget(r) ==
    /\ At(r, "send", "replyTarget")
    /\ LET q == req[r]
           messageTarget == getMessageById(messages, q.replyTo)
           error == replyRejection(messageTarget, q.conv)
       IN req' = [req EXCEPT ![r] =
            IF ~dbUp THEN Fail500(Unreachable(q))
            ELSE IF error # ""
            THEN Respond([q EXCEPT !.target = messageTarget], 400, error)
            ELSE [q EXCEPT !.target = messageTarget, !.pc = "provider"]]
    /\ UNCHANGED <<conversations, messages, webhookEvents>>
    /\ Unchanged_Config

\* createMetaProvider, outside the inner try: a throw answers 500
SendProvider(r) ==
    /\ At(r, "send", "provider")
    /\ LET q == Called(req[r])
           made == createMetaProvider(stored, env)
       IN req' = [req EXCEPT ![r] =
            IF ~dbUp \/ made.threw
            THEN Fail500([q EXCEPT !.storageThrew = ~dbUp])
            ELSE [q EXCEPT !.pc = "send"]]
    /\ UNCHANGED <<conversations, messages, webhookEvents>>
    /\ Unchanged_Config

statusAfterSend_AlwaysSent(threw) == "sent"

\* let status = "sent"; the inner catch makes it "failed"
statusAfterSend(threw) == IF threw THEN "failed" ELSE "sent"

\* provider.send: throws without credentials, and whenever the provider's
\* API refuses; the inner catch turns a throw into status "failed"
SendProviderSend(r, accepted) ==
    /\ At(r, "send", "send")
    /\ LET q == req[r]
           provider == The(q.provider)
           sent == accepted /\ ~Falsy(provider.token) /\ ~Falsy(provider.phoneNumberId)
       IN req' = [req EXCEPT ![r] =
            [q EXCEPT !.status = statusAfterSend(~sent), !.sendThrew = ~sent,
                      !.pc = "createMsg"]]
    /\ UNCHANGED <<conversations, messages, webhookEvents>>
    /\ Unchanged_Config

SendCreateMsg(r) ==
    /\ At(r, "send", "createMsg")
    /\ LET q == req[r]
           id == RowId(r, q.nMsgs + 1)
           made == createMessage(messages, conversations, id, q.conv,
                                 "outbound", q.status, q.replyTo)
       IN IF ~dbUp \/ made.threw
          THEN /\ req' = [req EXCEPT ![r] =
                    Fail500([q EXCEPT !.storageThrew = ~dbUp,
                                      !.fkViolation = dbUp /\ made.threw])]
               /\ UNCHANGED messages
          ELSE /\ messages' = made.rows
               /\ req' = [req EXCEPT ![r] =
                    [q EXCEPT !.msg = id, !.nMsgs = @ + 1, !.ts = clock,
                              !.pc = "updateLastAt"]]
    /\ UNCHANGED <<conversations, webhookEvents>>
    /\ Unchanged_Config

SendUpdateLastAt(r) ==
    /\ At(r, "send", "updateLastAt")
    /\ LET q == req[r] IN
       IF dbUp
       THEN /\ conversations' = updateConversationLastAt(conversations, q.conv, q.ts)
            /\ req' = [req EXCEPT ![r] = [q EXCEPT !.pc = "getReply"]]
       ELSE /\ req' = [req EXCEPT ![r] = Fail500(Unreachable(q))]
            /\ UNCHANGED conversations
    /\ UNCHANGED <<messages, webhookEvents>>
    /\ Unchanged_Config

\* getMessageWithReplyById, then the reply and the broadcast
SendGetReply(r) ==
    /\ At(r, "send", "getReply")
    /\ LET q == req[r] IN
       req' = [req EXCEPT ![r] =
            IF ~dbUp THEN Fail500(Unreachable(q))
            ELSE Broadcast(Respond(q, 200, "ok"), "message_outgoing", q.msg)]
    /\ UNCHANGED <<conversations, messages, webhookEvents>>
    /\ Unchanged_Config

DispatchSend(r, to, replyToMessageId) ==
    /\ Arrives(r)
    /\ Route("POST", SendPath, metaWebhookPath) = "send"
    /\ req' = [req EXCEPT ![r] =
         LET q == [Started(IdleReq) EXCEPT !.kind = "send", !.pc = "getConv",
                                  !.path = SendPath, !.phone = to,
                                  !.replyTo = replyToMessageId]
         IN IF Falsy(to) THEN Respond(q, 400, "conversationId or to is required.")
            ELSE q]
    /\ UNCHANGED <<conversations, messages, webhookEvents>>
    /\ Unchanged_Config

\* ------------------------------------------------------- admin endpoints
\* POST /api/webhooks/clear and DELETE /api/webhooks/events
ClearWebhookEvents ==
    /\ dbUp
    /\ webhookEvents # {}
    /\ webhookEvents' = {}
    /\ UNCHANGED <<conversations, messages, req>>
    /\ Unchanged_Config

\* DELETE /api/webhooks/events/:id
DeleteWebhookEventById(id) ==
    /\ dbUp
    /\ \E e \in webhookEvents : e.id = id
    /\ webhookEvents' = {e \in webhookEvents : e.id # id}
    /\ UNCHANGED <<conversations, messages, req>>
    /\ Unchanged_Config

\* DELETE /api/conversations/:id
DeleteConversation(id) ==
    /\ dbUp
    /\ \E c \in conversations : c.id = id
    /\ LET after == deleteConversation(conversations, messages, id) IN
         /\ conversations' = after.convs
         /\ messages' = after.msgs
    /\ UNCHANGED <<webhookEvents, req>>
    /\ Unchanged_Config

\* DELETE /api/messages/:id
DeleteMessage(id) ==
    /\ dbUp
    /\ \E m \in messages : m.id = id
    /\ messages' = deleteMessage(messages, id)
    /\ UNCHANGED <<conversations, webhookEvents, req>>
    /\ Unchanged_Config

\* POST /api/admin/api-controls with a boolean testWebhookEnabled
PostApiControls(testWebhookEnabled) ==
    /\ dbUp
    /\ apiControls' = Some(testWebhookEnabled)
    /\ UNCHANGED <<metaWebhookPath, stored, env, dbUp, clock, conversations, messages,
                   webhookEvents, ws, adm, req, sigReq, putReq, routed, calc>>

\* ------------------------------------------------------------ environment
Tick ==
    /\ clock < MaxClock
    /\ clock' = clock + 1
    /\ UNCHANGED <<metaWebhookPath, stored, env, dbUp, conversations, messages,
                   webhookEvents, ws, adm, apiControls, req, sigReq, putReq, routed, calc>>

\* the database becomes unreachable, or reachable again
DbOutage ==
    /\ dbUp' = ~dbUp
    /\ UNCHANGED <<metaWebhookPath, stored, env, clock, conversations, messages,
                   webhookEvents, ws, adm, apiControls, req, sigReq, putReq, routed, calc>>

\* --------------------- PUT /api/admin/webhook-config (routes.ts:195)
IdlePut == [pc |-> "idle", path |-> <<>>, status |-> 0]

updateMetaWebhookPath_Cached(current, nextPath) == current

\* metaWebhookPath = normalizeWebhookPath(nextPath)
updateMetaWebhookPath(current, nextPath) == normalizeWebhookPath(nextPath)

\* the admin sends one PUT at a time; a blank path is refused with 400
PutWebhookConfig(requestedPath) ==
    /\ putReq.pc \in {"idle", "done"}
    /\ putReq' = IF Trim(requestedPath) = <<>>
                 THEN [pc |-> "done", path |-> requestedPath, status |-> 400]
                 ELSE [pc |-> "set", path |-> requestedPath, status |-> 0]
    /\ UNCHANGED <<metaWebhookPath, stored, env, dbUp, clock, conversations, messages,
                   webhookEvents, ws, adm, apiControls, req, sigReq, routed, calc>>

\* await storage.setMetaWebhookSettings, then updateMetaWebhookPath
PutSet ==
    /\ putReq.pc = "set"
    /\ IF dbUp
       THEN /\ metaWebhookPath' =
                 updateMetaWebhookPath(metaWebhookPath, normalizeWebhookPath(putReq.path))
            /\ putReq' = [putReq EXCEPT !.pc = "get"]
       ELSE /\ putReq' = [putReq EXCEPT !.pc = "done", !.status = 400]
            /\ UNCHANGED metaWebhookPath
    /\ UNCHANGED <<stored, env, dbUp, clock, conversations, messages,
                   webhookEvents, ws, adm, apiControls, req, sigReq, routed, calc>>

\* await storage.getMetaWebhookSettings, then the reply
PutGet ==
    /\ putReq.pc = "get"
    /\ putReq' = [putReq EXCEPT !.pc = "done", !.status = IF dbUp THEN 200 ELSE 400]
    /\ UNCHANGED <<metaWebhookPath, stored, env, dbUp, clock, conversations, messages,
                   webhookEvents, ws, adm, apiControls, req, sigReq, routed, calc>>

\* the path of the last PUT, once it has returned success
LastPutOk == IF putReq.pc = "done" /\ putReq.status = 200 THEN Some(putReq.path) ELSE None

\* a request reaches the catch-all: which handler takes it under the path
\* configured at that moment
Receive(method, path) ==
    /\ routed' = Some([method |-> method, path |-> path,
                       configured |-> metaWebhookPath,
                       handler |-> Route(method, path, metaWebhookPath),
                       after |-> LastPutOk])
    /\ UNCHANGED <<metaWebhookPath, stored, env, dbUp, clock, conversations, messages,
                   webhookEvents, ws, adm, apiControls, req, sigReq, putReq, calc>>

\* ----------------------------------------- WebSocket fan-out (routes.ts:90)
Conns == {"a", "b"}
MaxPubs == 2

\* wsClients is empty at first; no connection exists yet
WsInit ==
    [clients |-> {},
     readyState |-> [c \in Conns |-> "NEW"],
     connected |-> {},                       \* have emitted 'connection'
     ended |-> {},                           \* have emitted 'close' or 'error'
     errored |-> {},                         \* have emitted 'error'
     inbox |-> [c \in Conns |-> <<>>],
     published |-> 0,
     last |-> [event |-> "", data |-> 0]]

\* JSON.stringify({ event, data })
Serialize(event, data) == JsonStringify([event |-> event, data |-> data])

shouldSend_Always(readyState) == TRUE

\* client.readyState === WebSocket.OPEN
shouldSend(readyState) == readyState = "OPEN"

\* wss.on('connection'): the socket is open and is added to wsClients
WsConnect(c) ==
    /\ ws.readyState[c] = "NEW"
    /\ ws' = [ws EXCEPT !.readyState[c] = "OPEN",
                        !.clients = @ \cup {c},
                        !.connected = @ \cup {c}]

\* the closing handshake has begun: readyState is CLOSING, no event yet
WsClosing(c) ==
    /\ ws.readyState[c] = "OPEN"
    /\ ws' = [ws EXCEPT !.readyState[c] = "CLOSING"]

wsDelete_Leak(clients, c) == clients

\* wsClients.delete(ws)
wsDelete(clients, c) == clients \ {c}

\* ws.on('close')
WsClose(c) ==
    /\ ws.readyState[c] \in {"OPEN", "CLOSING"}
    /\ ws' = [ws EXCEPT !.readyState[c] = "CLOSED",
                        !.clients = wsDelete(@, c),
                        !.ended = @ \cup {c}]

\* ws.on('error'): the socket may stay as it is or start closing; 'close'
\* follows later
WsError(c, closes) ==
    /\ ws.readyState[c] \in {"OPEN", "CLOSING"}
    /\ ws' = [ws EXCEPT !.readyState[c] = IF closes THEN "CLOSING" ELSE @,
                        !.clients = wsDelete(@, c),
                        !.ended = @ \cup {c},
                        !.errored = @ \cup {c}]

\* broadcastMessage(event, data): one JSON.stringify, then wsClients.forEach
broadcastMessage(w, event, data) ==
    LET message == [n |-> w.published + 1, text |-> Serialize(event, data)] IN
    [w EXCEPT !.published = @ + 1,
              !.last = [event |-> event, data |-> data],
              !.inbox = [c \in Conns |->
                           IF c \in w.clients /\ shouldSend(w.readyState[c])
                           THEN Append(@[c], message) ELSE @[c]]]

PublishEvents == {"message_incoming", "message_deleted"}

Publish(event, data) ==
    /\ ws.published < MaxPubs
    /\ ws' = broadcastMessage(ws, event, data)

Unchanged_NotWs ==
    UNCHANGED <<metaWebhookPath, stored, env, dbUp, clock, conversations, messages,
                webhookEvents, adm, apiControls, req, sigReq, putReq, routed, calc>>

NextWs ==
    \/ \E c \in Conns : (WsConnect(c) \/ WsClosing(c) \/ WsClose(c)) /\ Unchanged_NotWs
    \/ \E c \in Conns, closes \in BOOLEAN : WsError(c, closes) /\ Unchanged_NotWs
    \/ \E event \in PublishEvents : Publish(event, 11) /\ Unchanged_NotWs

\* ------------------------------------------------------- admin requests
\* --- GET and PUT /api/admin/whatsapp/default-instance (routes.ts:213, 222)
MaxPuts == 1

\* a property that is not in the request body
ABSENT == "undefined"
\* a string of blanks only
BLANK == "  "

\* String.prototype.trim on the strings of the model
TrimStr(v) == IF v = BLANK THEN "" ELSE v

IsString(v) == v # ABSENT /\ v # NULL

NoBody == [phoneNumberId |-> ABSENT, accessToken |-> ABSENT,
           webhookVerifyToken |-> ABSENT, appSecret |-> ABSENT, isActive |-> ABSENT]

\* the admins whose PUT /api/admin/webhook-config requests may overlap
Admins == {"a1", "a2"}

IdleConfigPut == [pc |-> "idle", path |-> <<>>, existing |-> FALSE, status |-> 0]

\* the DELETE /api/messages/:id requests that may overlap
Deleters == {"d1", "d2", "d3"}

IdleDelete == [pc |-> "idle", id |-> 0, deleted |-> None, threw |-> FALSE,
               responses |-> <<>>, bcast |-> <<>>]

AdmInit ==
    [pc |-> "idle", body |-> NoBody, resolved |-> None,
     status |-> 0, response |-> None,
     nPuts |-> 0,                       \* PUTs received
     nDone |-> 0,                       \* PUTs answered 200
     writes |-> <<>>,                   \* the instances written, in order
     configPuts |-> [a \in Admins |-> IdleConfigPut],
     savedPath |-> None,                \* app_settings row of the webhook path
     deletes |-> [d \in Deleters |-> IdleDelete]]

toInstanceResponse_Leaks(instance) ==
    IF ~IsSome(instance) THEN None
    ELSE Some([phoneNumberId |-> The(instance).phoneNumberId,
               isActive |-> The(instance).isActive,
               source |-> The(instance).source,
               accessTokenConfigured |-> ~Falsy(The(instance).accessToken),
               webhookVerifyTokenConfigured |-> ~Falsy(The(instance).webhookVerifyToken),
               appSecretConfigured |-> The(instance).appSecret # "k1"])

\* toInstanceResponse(instance): the secrets appear as flags only
toInstanceResponse(instance) ==
    IF ~IsSome(instance) THEN None
    ELSE Some([phoneNumberId |-> The(instance).phoneNumberId,
               isActive |-> The(instance).isActive,
               source |-> The(instance).source,
               accessTokenConfigured |-> ~Falsy(The(instance).accessToken),
               webhookVerifyTokenConfigured |-> ~Falsy(The(instance).webhookVerifyToken),
               appSecretConfigured |-> ~Falsy(The(instance).appSecret)])

\* resolvedVerifyToken / resolvedAppSecret (routes.ts:270-288)
resolveSecret(current, given) ==
    IF given = ABSENT THEN current
    ELSE IF given = NULL THEN NULL
    ELSE IF TrimStr(given) = "" THEN NULL ELSE TrimStr(given)

\* the synchronous part of the PUT between its first read and its write:
\* the 400 replies and the payload of setDefaultWhatsappInstance
resolveInstance(current, body) ==
    LET cur(field, default) == IF IsSome(current) THEN The(current)[field] ELSE default
        trimmedPhoneNumberId == IF IsString(body.phoneNumberId)
                                THEN TrimStr(body.phoneNumberId) ELSE ABSENT
        trimmedAccessToken == IF IsString(body.accessToken)
                              THEN TrimStr(body.accessToken) ELSE ABSENT
        resolvedPhoneNumberId ==
            IF trimmedPhoneNumberId # ABSENT /\ trimmedPhoneNumberId # ""
            THEN trimmedPhoneNumberId ELSE cur("phoneNumberId", "")
        resolvedAccessToken ==
            IF trimmedAccessToken # ABSENT /\ trimmedAccessToken # ""
            THEN trimmedAccessToken ELSE cur("accessToken", "")
    IN IF Falsy(resolvedPhoneNumberId)
       THEN [error |-> "Phone Number ID is required.", instance |-> None]
       ELSE IF trimmedAccessToken = ""
       THEN [error |-> "Access token cannot be empty.", instance |-> None]
       ELSE IF Falsy(resolvedAccessToken)
       THEN [error |-> "Access token is required.", instance |-> None]
       ELSE [error |-> "",
             instance |-> Some(
               [phoneNumberId |-> resolvedPhoneNumberId,
                accessToken |-> resolvedAccessToken,
                webhookVerifyToken |->
                    resolveSecret(cur("webhookVerifyToken", NULL), body.webhookVerifyToken),
                appSecret |-> resolveSecret(cur("appSecret", NULL), body.appSecret),
                isActive |-> IF body.isActive = ABSENT THEN cur("isActive", TRUE)
                             ELSE body.isActive = "true"])]

Unchanged_NotAdmin ==
    UNCHANGED <<metaWebhookPath, env, dbUp, clock, conversations, messages,
                webhookEvents, ws, apiControls, req, sigReq, putReq, routed, calc>>

\* the admin sends one PUT at a time
PutInstance(body) ==
    /\ adm.pc \in {"idle", "done"}
    /\ adm.nPuts < MaxPuts
    /\ adm' = [adm EXCEPT !.pc = "current", !.body = body, !.resolved = None,
                          !.status = 0, !.response = None, !.nPuts = @ + 1]
    /\ UNCHANGED stored
    /\ Unchanged_NotAdmin

\* const current = await storage.getDefaultWhatsappInstance(), then the checks
PutInstanceCurrent ==
    /\ adm.pc = "current"
    /\ LET made == resolveInstance(getDefaultWhatsappInstance(stored, env), adm.body) IN
       adm' = IF ~dbUp THEN [adm EXCEPT !.pc = "done", !.status = 500]
              ELSE IF made.error # "" THEN [adm EXCEPT !.pc = "done", !.status = 400]
              ELSE [adm EXCEPT !.pc = "set", !.resolved = made.instance]
    /\ UNCHANGED stored
    /\ Unchanged_NotAdmin

\* await storage.setDefaultWhatsappInstance(...)
PutInstanceSet ==
    /\ adm.pc = "set"
    /\ IF dbUp
       THEN /\ stored' = adm.resolved
            /\ adm' = [adm EXCEPT !.pc = "updated", !.writes = Append(@, adm.resolved)]
       ELSE /\ adm' = [adm EXCEPT !.pc = "done", !.status = 500]
            /\ UNCHANGED stored
    /\ Unchanged_NotAdmin

\* const updated = await storage.getDefaultWhatsappInstance(), then the reply
PutInstanceUpdated ==
    /\ adm.pc = "updated"
    /\ adm' = IF ~dbUp THEN [adm EXCEPT !.pc = "done", !.status = 500]
              ELSE [adm EXCEPT !.pc = "done", !.status = 200, !.nDone = @ + 1,
                               !.response = toInstanceResponse(
                                   getDefaultWhatsappInstance(stored, env))]
    /\ UNCHANGED stored
    /\ Unchanged_NotAdmin

PutInstanceSteps == PutInstanceCurrent \/ PutInstanceSet \/ PutInstanceUpdated

\* --------------- concurrent DELETE /api/messages/:id (routes.ts:652-674)
returned_Always(msgs, id) == Some([id |-> id, conversationId |-> 0])

\* RETURNING { id, conversationId } of the DELETE: the row it removed, if any
returned(msgs, id) ==
    IF \E m \in msgs : m.id = id
    THEN Some([id |-> id,
               conversationId |-> (CHOOSE m \in msgs : m.id = id).conversationId])
    ELSE None

Unchanged_NotDelete ==
    UNCHANGED <<metaWebhookPath, stored, env, dbUp, clock, conversations,
                webhookEvents, ws, apiControls, req, sigReq, putReq, routed, calc>>

\* the request arrives and calls storage.deleteMessage(id)
DeleteArrives(d, id) ==
    /\ adm.deletes[d].pc = "idle"
    /\ adm' = [adm EXCEPT !.deletes[d].pc = "delete", !.deletes[d].id = id]
    /\ UNCHANGED messages
    /\ Unchanged_NotDelete

\* the database runs the DELETE ... RETURNING as one statement
DeleteRuns(d) ==
    /\ adm.deletes[d].pc = "delete"
    /\ LET q == adm.deletes[d] IN
       IF dbUp
       THEN /\ messages' = deleteMessage(messages, q.id)
            /\ adm' = [adm EXCEPT !.deletes[d].pc = "returned",
                                  !.deletes[d].deleted = returned(messages, q.id)]
       ELSE /\ adm' = [adm EXCEPT !.deletes[d].pc = "returned",
                                  !.deletes[d].threw = TRUE]
            /\ UNCHANGED messages
    /\ Unchanged_NotDelete

\* the handler resumes: 500 from the catch, 404 when nothing was deleted,
\* else the message_deleted broadcast and the 200
DeleteReturns(d) ==
    /\ adm.deletes[d].pc = "returned"
    /\ LET q == adm.deletes[d]
           reply(status) == [q EXCEPT !.pc = "done",
                                      !.responses = Append(@, [status |-> status])]
       IN adm' = [adm EXCEPT !.deletes[d] =
            IF q.threw THEN reply(500)
            ELSE IF ~IsSome(q.deleted) THEN reply(404)
            ELSE [reply(200) EXCEPT !.bcast =
                     Append(@, [event |-> "message_deleted", id |-> The(q.deleted).id])]]
    /\ UNCHANGED messages
    /\ Unchanged_NotDelete

\* ------- concurrent PUT /api/admin/webhook-config (routes.ts:195-211)
\* Each await of the handler is a point where other handlers run. The
\* database applies a write when its statement commits; the handler that
\* issued it resumes in a later turn of the event loop, and nothing orders
\* the resumptions of two handlers (two pool connections) as their commits.
Unchanged_NotConfig ==
    UNCHANGED <<stored, env, dbUp, clock, conversations, messages,
                webhookEvents, ws, apiControls, req, sigReq, putReq, routed, calc>>

\* the request arrives: a blank path is refused, else the path is
\* normalized and setMetaWebhookSettings is called
PutConfig(a, requestedPath) ==
    /\ adm.configPuts[a].pc = "idle"
    /\ adm' = [adm EXCEPT !.configPuts[a] =
                 IF Trim(requestedPath) = <<>>
                 THEN [@ EXCEPT !.pc = "done", !.status = 400]
                 ELSE [@ EXCEPT !.pc = "select",
                                !.path = normalizeWebhookPath(requestedPath)]]
    /\ UNCHANGED metaWebhookPath
    /\ Unchanged_NotConfig

\* setAppSetting: the SELECT that looks for the row
PutConfigSelect(a) ==
    /\ adm.configPuts[a].pc = "select"
    /\ adm' = [adm EXCEPT !.configPuts[a] =
                 IF dbUp
                 THEN [@ EXCEPT !.pc = "write", !.existing = IsSome(adm.savedPath)]
                 ELSE [@ EXCEPT !.pc = "done", !.status = 400]]
    /\ UNCHANGED metaWebhookPath
    /\ Unchanged_NotConfig

\* setAppSetting: the UPDATE, or the INSERT, which the primary key refuses
\* when the row has appeared since the SELECT
PutConfigWrite(a) ==
    /\ adm.configPuts[a].pc = "write"
    /\ LET q == adm.configPuts[a]
           refused == ~dbUp \/ (~q.existing /\ IsSome(adm.savedPath))
       IN  adm' = IF refused
                  THEN [adm EXCEPT !.configPuts[a].pc = "done",
                                   !.configPuts[a].status = 400]
                  ELSE [adm EXCEPT !.configPuts[a].pc = "written",
                                   !.savedPath = Some(q.path)]
    /\ UNCHANGED metaWebhookPath
    /\ Unchanged_NotConfig

\* the handler resumes: updateMetaWebhookPath(sanitizedPath), then it calls
\* getMetaWebhookSettings
PutConfigWritten(a) ==
    /\ adm.configPuts[a].pc = "written"
    /\ metaWebhookPath' = updateMetaWebhookPath(metaWebhookPath, adm.configPuts[a].path)
    /\ adm' = [adm EXCEPT !.configPuts[a].pc = "read"]
    /\ Unchanged_NotConfig

\* getMetaWebhookSettings answers and the handler replies
PutConfigRead(a) ==
    /\ adm.configPuts[a].pc = "read"
    /\ adm' = [adm EXCEPT !.configPuts[a].pc = "done",
                          !.configPuts[a].status = IF dbUp THEN 200 ELSE 400]
    /\ UNCHANGED metaWebhookPath
    /\ Unchanged_NotConfig


\* ------------------------------------------------------- specifications
TypeInit ==
    /\ dbUp = TRUE
    /\ clock = 1
    /\ conversations = {}
    /\ messages = {}
    /\ webhookEvents = {}
    /\ apiControls = None
    /\ req = [r \in Requests |-> IdleReq]
    /\ sigReq = None
    /\ putReq = IdlePut
    /\ routed = None
    /\ calc = None
    /\ ws = WsInit
    /\ adm = AdmInit

\* the webhook-class endpoints under storage outages and journal purges
Init ==
    /\ TypeInit
    /\ metaWebhookPath = normalizeWebhookPath(<<>>)
    /\ \E cfg \in Configs : stored = cfg[1] /\ env = cfg[2]

EventSteps(r) ==
    \/ EventProvider(r) \/ EventLogReply(r) \/ EventGetConv(r) \/ EventCreateConv(r)
    \/ EventCreateMsg(r) \/ EventLogEvent(r) \/ EventUpdateLastAt(r) \/ EventLogErr(r)

VerifySteps(r) == VerifyProvider(r) \/ VerifyLogReply(r) \/ VerifyLogErr(r)

TestSteps(r) ==
    \/ TestControls(r) \/ TestGetConv(r) \/ TestCreateConv(r) \/ TestCreateMsg(r)
    \/ TestUpdateLastAt(r) \/ TestLogEvent(r)

SendSteps(r) ==
    \/ SendGetConv(r) \/ SendCreateConv(r) \/ SendProvider(r)
    \/ (\E accepted \in BOOLEAN : SendProviderSend(r, accepted))
    \/ SendCreateMsg(r) \/ SendUpdateLastAt(r) \/ SendGetReply(r)

ConvSteps(r) == ConvGetConv(r) \/ ConvCreateConv(r)

WebhookPaths == {FallbackPath}

Next ==
    \/ \E r \in Requests, path \in WebhookPaths :
         \/ \E bytes \in EventBytes : \E sig \in EventSigs(bytes) :
              DispatchEvent(r, path, bytes, sig)
         \/ \E query \in Queries : DispatchVerify(r, path, query)
         \/ DispatchOther(r, path)
    \/ \E r \in Requests : EventSteps(r) \/ VerifySteps(r)
    \/ ClearWebhookEvents
    \/ \E e \in webhookEvents : DeleteWebhookEventById(e.id)
    \/ DbOutage

Spec == Init /\ [][Next]_vars

\* get-or-create of a conversation by phone from all four endpoints, with
\* the clock running and conversations deleted by an admin; storage is up
IngestConfigs == {<<None, EnvEmpty>>, <<Some(StoredFull), EnvEmpty>>}

InitIngest ==
    /\ TypeInit
    /\ metaWebhookPath = normalizeWebhookPath(<<>>)
    /\ \E cfg \in IngestConfigs : stored = cfg[1] /\ env = cfg[2]

NextIngest ==
    \/ \E r \in Requests :
         \/ \E bytes \in EventBytes : \E sig \in EventSigs(bytes) :
              DispatchEvent(r, FallbackPath, bytes, sig)
         \/ \E phone \in Phones : DispatchTest(r, phone)
         \/ \E phone \in Phones : DispatchSend(r, phone, 0)
         \/ \E phone \in Phones : DispatchConv(r, phone)
    \/ \E r \in Requests :
         EventSteps(r) \/ TestSteps(r) \/ SendSteps(r) \/ ConvSteps(r)
    \/ \E c \in conversations : DeleteConversation(c.id)
    \/ Tick

SpecIngest == InitIngest /\ [][NextIngest]_vars

\* ----------------------------------------------- sends with a reply target
\* replies are sent while messages are ingested and deleted: an instance
\* with credentials, a disabled one, and no settings at all
SendConfigs == {<<Some(StoredFull), EnvEmpty>>, <<Some(StoredOff), EnvEmpty>>,
                <<None, EnvEmpty>>}

\* replyToMessageId of a send: none, or the first message of either request
ReplyIds == {0} \cup {RowId(r, 1) : r \in Requests}

InitSend ==
    /\ TypeInit
    /\ metaWebhookPath = normalizeWebhookPath(<<>>)
    /\ \E cfg \in SendConfigs : stored = cfg[1] /\ env = cfg[2]

NextSend ==
    \/ \E r \in Requests, phone \in Phones \ {""} : DispatchTest(r, phone)
    \/ \E r \in Requests, phone \in Phones \ {""} :
         \E replyToMessageId \in ReplyIds : DispatchSend(r, phone, replyToMessageId)
    \/ \E r \in Requests : TestSteps(r) \/ SendSteps(r) \/ SendGetReplyTarget(r)
    \/ \E c \in conversations : DeleteConversation(c.id)
    \/ \E m \in messages : DeleteMessage(m.id)

SpecSend == InitSend /\ [][NextSend]_vars

\* --------------------------------------------- the test-injection switch
\* POST /webhook/test while an admin turns the switch and storage comes and goes
NextTestHook ==
    \/ \E r \in Requests, from \in Phones \cup {""} : DispatchTest(r, from)
    \/ \E r \in Requests : TestSteps(r)
    \/ \E testWebhookEnabled \in BOOLEAN : PostApiControls(testWebhookEnabled)
    \/ DbOutage

SpecTestHook == InitIngest /\ [][NextTestHook]_vars

\* ------------------------------------------ rotation of the credentials
\* the stored instance the server starts with, and the updates an admin sends
BootInstance == Some(StoredFull)
BodyRotate == [NoBody EXCEPT !.accessToken = "tok2", !.webhookVerifyToken = "xyz",
                             !.appSecret = "k2"]
BodyDisable == [NoBody EXCEPT !.isActive = "false"]
BodyClear == [NoBody EXCEPT !.webhookVerifyToken = NULL, !.appSecret = NULL]
CredBodies == {BodyRotate, BodyDisable, BodyClear}

CredQueries == {Query("subscribe", TRUE, "abc"), Query("subscribe", TRUE, "xyz")}
CredBytes == JsonBytes(PayloadStatusOnly, "compact", "none")
CredSigs == {Some(SigHeader(1, Hmac("k1", CredBytes))),
             Some(SigHeader(1, Hmac("k2", CredBytes)))}

InitCred ==
    /\ TypeInit
    /\ metaWebhookPath = normalizeWebhookPath(<<>>)
    /\ stored = BootInstance
    /\ env = EnvFull

NextCred ==
    \/ \E r \in Requests :
         \/ \E query \in CredQueries : DispatchVerify(r, FallbackPath, query)
         \/ \E sig \in CredSigs : DispatchEvent(r, FallbackPath, CredBytes, sig)
         \/ DispatchSend(r, "p1", 0)
    \/ \E r \in Requests :
         \/ VerifySteps(r) \/ SendSteps(r)
         \/ EventProvider(r) \/ EventLogReply(r) \/ EventLogErr(r)
    \/ \E body \in CredBodies : PutInstance(body)
    \/ PutInstanceSteps

SpecCred == InitCred /\ [][NextCred]_vars

\* ------------------------------------------------ the WebSocket server
InitWs ==
    /\ TypeInit
    /\ metaWebhookPath = normalizeWebhookPath(<<>>)
    /\ stored = None
    /\ env = EnvEmpty

SpecWs == InitWs /\ [][NextWs]_vars

\* ------------------------------------------- the signature gate on its own
\* One POST at a time through express.json (index.ts:17), the catch-all and
\* the first lines of handleMetaWebhookEvent, for every configured path,
\* body, content type and signature header.
SigKeys == {"k1", "k2"}
SigDocs == {PayloadStatusOnly, PayloadOne}
SigBodies ==
    {EMPTY} \cup {JsonBytes(d, f, b) : d \in SigDocs, f \in {"compact", "spaced"},
                                      b \in {"none", "invalid"}}

\* the same text with one byte changed: a space taken out or put in
OtherBytes(bytes) ==
    IF bytes.fmt = "spaced" THEN [bytes EXCEPT !.fmt = "compact"]
    ELSE [bytes EXCEPT !.fmt = "spaced"]

MaxPrefixes == 2

\* no header, or "sha256=" (or none, or two) before the digest a holder of
\* key k computes over the bytes sent or over other bytes
SigHeaders(bytes) ==
    {None} \cup {Some(SigHeader(n, Hmac(k, d))) :
                   n \in 0..MaxPrefixes, k \in SigKeys, d \in {bytes, OtherBytes(bytes)}}

\* req.path is never empty, starts with "/" and holds no raw space
RequestPaths ==
    {p \in SeqsUpTo(PathTokens \ {SPACE}, MaxPathLen) : StartsWithSlash(p)}
      \cup {FallbackPath, <<SLASH>> \o FallbackPath, FallbackPath \o <<SLASH>>}

SigPost(path, contentType, bytes, header) ==
    /\ sigReq = None
    /\ Route("POST", path, metaWebhookPath) = "event"
    /\ LET rawBody == RawBodyOf(path, contentType, bytes)
           body == ParsedBodyOf(contentType, bytes)
           made == createMetaProvider(stored, env)
       IN sigReq' = Some([path |-> path, contentType |-> contentType,
                          bytes |-> bytes, header |-> header,
                          checked |-> ~made.threw /\ hasAppSecret(made.instance, env),
                          signed |-> SignedInput(rawBody, body),
                          verdict |-> SignatureGate(stored, env, header, rawBody, body)])
    /\ UNCHANGED <<metaWebhookPath, stored, env, dbUp, clock, conversations, messages,
                   webhookEvents, ws, adm, apiControls, req, putReq, routed, calc>>

InitSig ==
    /\ TypeInit
    /\ metaWebhookPath \in ConfiguredPaths
    /\ stored \in StoredChoices
    /\ env \in EnvChoices

\* the request paths the catch-all hands to the event handler
EventPaths == {p \in RequestPaths : Route("POST", p, metaWebhookPath) = "event"}

NextSig ==
    /\ sigReq = None
    /\ \E path \in EventPaths :
      \E contentType \in {"json", "text"}, bytes \in SigBodies :
        \E header \in SigHeaders(bytes) : SigPost(path, contentType, bytes, header)

SpecSig == InitSig /\ [][NextSig]_vars

\* ------------------------------------------------- the router on its own
\* Requests of any method and path reach the catch-all while an admin
\* changes the webhook path and storage comes and goes.
Methods == {"GET", "POST", "PUT"}

\* what the admin types: with and without the reserved prefix, with blanks,
\* repeated and trailing slashes, the test endpoint's own path, nothing
AdminPaths ==
    {<<WEBHOOK>>, <<SLASH, WEBHOOK, SLASH, "meta", SLASH>>, <<SPACE, "meta", SPACE>>,
     <<SLASH, SLASH, WEBHOOK, SLASH, SLASH, "test">>, <<SPACE>>, <<"hook", SLASH, "in">>}

\* the request paths tried: the default path and its slash variants, the
\* paths an admin may configure, near misses, and the later routes' own
RoutePaths ==
    {FallbackPath, <<SLASH>> \o FallbackPath, FallbackPath \o <<SLASH>>,
     <<SLASH>>, <<SLASH, WEBHOOK>>, <<SLASH, WEBHOOK, SLASH>>,
     <<SLASH, WEBHOOK, "meta">>, <<SLASH, "meta">>,
     <<SLASH, WEBHOOK, SLASH, "hook", SLASH, "in">>,
     <<SLASH, SLASH, WEBHOOK, SLASH, "test", SLASH>>,
     TestPath, DebugPath, ConversationsPath, SendPath}

InitRoute ==
    /\ TypeInit
    /\ metaWebhookPath = normalizeWebhookPath(<<>>)
    /\ stored = None
    /\ env = EnvEmpty

NextRoute ==
    \/ \E method \in Methods, path \in RoutePaths : Receive(method, path)
    \/ \E requestedPath \in AdminPaths : PutWebhookConfig(requestedPath)
    \/ PutSet
    \/ PutGet
    \/ DbOutage

SpecRoute == InitRoute /\ [][NextRoute]_vars

\* ------ the instance responses under two configurations side by side
\* GET /api/admin/whatsapp/default-instance (routes.ts:213-220)
getInstanceReply(st, e) ==
    [status |-> 200, error |-> "",
     instance |-> toInstanceResponse(getDefaultWhatsappInstance(st, e))]

\* PUT /api/admin/whatsapp/default-instance with storage reachable: the 400
\* of the checks, else the write and the response made from the re-read
putInstanceReply(st, e, body) ==
    LET made == resolveInstance(getDefaultWhatsappInstance(st, e), body) IN
    IF made.error # ""
    THEN [status |-> 400, error |-> made.error, instance |-> None]
    ELSE [status |-> 200, error |-> "",
          instance |-> toInstanceResponse(getDefaultWhatsappInstance(made.instance, e))]

AccessTokens == {"tok", "tok2"}
VerifyTokens == {"abc", "xyz"}
AppSecrets == {"k1", "k2"}

\* stored instances as PUT writes them: secrets trimmed, a cleared one null
StoredInstances ==
    {None} \cup
    {Some([phoneNumberId |-> "pn", accessToken |-> t, webhookVerifyToken |-> v,
           appSecret |-> k, isActive |-> on]) :
        t \in AccessTokens, v \in VerifyTokens \cup {NULL},
        k \in AppSecrets \cup {NULL}, on \in BOOLEAN}

\* environments: unset, set, set to other secrets, set to blanks
Environments ==
    {EnvEmpty, EnvFull,
     [EnvFull EXCEPT !.META_TOKEN = "etok2", !.META_VERIFY_TOKEN = "xyz",
                     !.META_APP_SECRET = "k2"],
     [EnvFull EXCEPT !.META_VERIFY_TOKEN = BLANK, !.META_APP_SECRET = BLANK]}

SameOrBothSet(x, y) == IF Falsy(x) \/ Falsy(y) THEN x = y ELSE TRUE

\* two configurations that differ at most in the values of secrets that
\* are set in both
DifferInSecretsOnly(a, b) ==
    /\ IsSome(a.st) = IsSome(b.st)
    /\ IsSome(a.st) =>
          /\ The(a.st).phoneNumberId = The(b.st).phoneNumberId
          /\ The(a.st).isActive = The(b.st).isActive
          /\ SameOrBothSet(The(a.st).accessToken, The(b.st).accessToken)
          /\ SameOrBothSet(The(a.st).webhookVerifyToken, The(b.st).webhookVerifyToken)
          /\ SameOrBothSet(The(a.st).appSecret, The(b.st).appSecret)
    /\ a.e.META_PHONE_NUMBER_ID = b.e.META_PHONE_NUMBER_ID
    /\ SameOrBothSet(a.e.META_TOKEN, b.e.META_TOKEN)
    /\ SameOrBothSet(a.e.META_VERIFY_TOKEN, b.e.META_VERIFY_TOKEN)
    /\ SameOrBothSet(a.e.META_APP_SECRET, b.e.META_APP_SECRET)

InstanceBodies ==
    CredBodies \cup
    {NoBody, [NoBody EXCEPT !.accessToken = BLANK],
     [NoBody EXCEPT !.phoneNumberId = "pn2", !.accessToken = "tok3"],
     [NoBody EXCEPT !.webhookVerifyToken = BLANK]}

NoReply == [status |-> 0, error |-> "", instance |-> None]

Unchanged_NotCalc ==
    UNCHANGED <<metaWebhookPath, stored, env, dbUp, clock, conversations, messages,
                webhookEvents, ws, adm, apiControls, req, sigReq, putReq, routed>>

CompareStart(a, b) ==
    /\ calc = None
    /\ DifferInSecretsOnly(a, b)
    /\ calc' = Some([a |-> a, b |-> b, stage |-> 0, body |-> NoBody,
                     getA |-> NoReply, getB |-> NoReply,
                     putA |-> NoReply, putB |-> NoReply])
    /\ Unchanged_NotCalc

\* the same GET under each configuration
CompareGet ==
    /\ IsSome(calc) /\ The(calc).stage = 0
    /\ LET c == The(calc) IN
       calc' = Some([c EXCEPT !.stage = 1,
                              !.getA = getInstanceReply(c.a.st, c.a.e),
                              !.getB = getInstanceReply(c.b.st, c.b.e)])
    /\ Unchanged_NotCalc

\* the same PUT under each configuration
ComparePut(body) ==
    /\ IsSome(calc) /\ The(calc).stage = 1
    /\ LET c == The(calc) IN
       calc' = Some([c EXCEPT !.stage = 2, !.body = body,
                              !.putA = putInstanceReply(c.a.st, c.a.e, body),
                              !.putB = putInstanceReply(c.b.st, c.b.e, body)])
    /\ Unchanged_NotCalc

NextCompare ==
    \/ \E sa, sb \in StoredInstances, ea, eb \in Environments :
         CompareStart([st |-> sa, e |-> ea], [st |-> sb, e |-> eb])
    \/ CompareGet
    \/ \E body \in InstanceBodies : ComparePut(body)

\* the server's own settings play no part: the two configurations are inputs
InitCompare ==
    /\ TypeInit
    /\ metaWebhookPath = normalizeWebhookPath(<<>>)
    /\ stored = None
    /\ env = EnvEmpty

SpecCompare == InitCompare /\ [][NextCompare]_vars

\* overlapping PUTs of the webhook path, with storage outages
NextConfig ==
    \/ \E a \in Admins, requestedPath \in AdminPaths : PutConfig(a, requestedPath)
    \/ \E a \in Admins : PutConfigSelect(a)
    \/ \E a \in Admins : PutConfigWrite(a)
    \/ \E a \in Admins : PutConfigWritten(a)
    \/ \E a \in Admins : PutConfigRead(a)
    \/ DbOutage

SpecConfig == InitRoute /\ [][NextConfig]_vars

\* overlapping deletions of the messages of one conversation: an incoming
\* message and the reply that was sent to it
StoredMessageIds == {11, 21}

StoredConversations == createConversation({}, 11, "p1").rows

StoredMessages ==
    LET incoming == createMessage({}, StoredConversations, 11, 11,
                                  "inbound", "received", 0).rows
    IN  createMessage(incoming, StoredConversations, 21, 11, "outbound", "sent", 11).rows

InitDelete ==
    /\ dbUp = TRUE
    /\ clock = 1
    /\ conversations = StoredConversations
    /\ messages = StoredMessages
    /\ webhookEvents = {}
    /\ apiControls = None
    /\ req = [r \in Requests |-> IdleReq]
    /\ sigReq = None
    /\ putReq = IdlePut
    /\ routed = None
    /\ calc = None
    /\ ws = WsInit
    /\ adm = AdmInit
    /\ metaWebhookPath = normalizeWebhookPath(<<>>)
    /\ stored = None
    /\ env = EnvFull

NextDelete ==
    \/ \E d \in Deleters, id \in StoredMessageIds : DeleteArrives(d, id)
    \/ \E d \in Deleters : DeleteRuns(d)
    \/ \E d \in Deleters : DeleteReturns(d)
    \/ DbOutage

SpecDelete == InitDelete /\ [][NextDelete]_vars

\* ----------------------------------------- normalizeWebhookPath on its own
\* every input of up to MaxPathLen tokens, normalized and normalized again
InitNormalize ==
    /\ TypeInit
    /\ metaWebhookPath = normalizeWebhookPath(<<>>)
    /\ stored = None
    /\ env = EnvEmpty

NormalizeStart(inputPath) ==
    /\ calc = None
    /\ calc' = Some([input |-> inputPath, stage |-> 0, once |-> <<>>, twice |-> <<>>])
    /\ UNCHANGED <<metaWebhookPath, stored, env, dbUp, clock, conversations, messages,
                   webhookEvents, ws, adm, apiControls, req, sigReq, putReq, routed>>

NormalizeOnce ==
    /\ IsSome(calc) /\ The(calc).stage = 0
    /\ calc' = Some([The(calc) EXCEPT !.stage = 1,
                                      !.once = normalizeWebhookPath(The(calc).input)])
    /\ UNCHANGED <<metaWebhookPath, stored, env, dbUp, clock, conversations, messages,
                   webhookEvents, ws, adm, apiControls, req, sigReq, putReq, routed>>

NormalizeAgain ==
    /\ IsSome(calc) /\ The(calc).stage = 1
    /\ calc' = Some([The(calc) EXCEPT !.stage = 2,
                                      !.twice = normalizeWebhookPath(The(calc).once)])
    /\ UNCHANGED <<metaWebhookPath, stored, env, dbUp, clock, conversations, messages,
                   webhookEvents, ws, adm, apiControls, req, sigReq, putReq, routed>>

NextNormalize ==
    \/ \E inputPath \in PathInputs : NormalizeStart(inputPath)
    \/ NormalizeOnce
    \/ NormalizeAgain

SpecNormalize == InitNormalize /\ [][NextNormalize]_vars

\* ------------------------------------------------ parseIncoming on its own
MaxMsgs == 2

\* provider messages of a recognized subtype, of an unrecognized one, null
ParseMsgs == {Msg("p1", "text"), Msg("p2", "sticker"), Msg("p1", "image"), NullElement}
ParseChanges ==
    {Change(FALSE, FALSE, <<>>), Change(TRUE, FALSE, <<>>), NullElement}
      \cup {Change(TRUE, TRUE, msgs) : msgs \in SeqsUpTo(ParseMsgs, MaxMsgs)}
\* no element, one, or two
UpToTwo(S) == {<<>>} \cup {<<x>> : x \in S} \cup {<<x, y>> : x \in S, y \in S}
ParseEntries ==
    {Entry(FALSE, <<>>), NullElement} \cup {Entry(TRUE, cs) : cs \in UpToTwo(ParseChanges)}
ParsePayloads ==
    {Envelope(FALSE, <<>>), Envelope(TRUE, <<>>)}
      \cup {Envelope(TRUE, <<e>>) : e \in ParseEntries}
      \cup {Envelope(TRUE, <<Entry(FALSE, <<>>), e>>) : e \in ParseEntries}

ParseStart(payload) ==
    /\ calc = None
    /\ calc' = Some([payload |-> payload, stage |-> 0, threw |-> FALSE, events |-> <<>>])
    /\ UNCHANGED <<metaWebhookPath, stored, env, dbUp, clock, conversations, messages,
                   webhookEvents, ws, adm, apiControls, req, sigReq, putReq, routed>>

\* provider.parseIncoming(req.body)
Parse ==
    /\ IsSome(calc) /\ The(calc).stage = 0
    /\ LET payload == The(calc).payload
           threw == parseIncomingThrows(payload)
       IN calc' = Some([The(calc) EXCEPT
                          !.stage = 1, !.threw = threw,
                          !.events = IF threw THEN <<>> ELSE parseIncoming(payload)])
    /\ UNCHANGED <<metaWebhookPath, stored, env, dbUp, clock, conversations, messages,
                   webhookEvents, ws, adm, apiControls, req, sigReq, putReq, routed>>

NextParse ==
    \/ \E payload \in ParsePayloads : ParseStart(payload)
    \/ Parse

SpecParse == InitNormalize /\ [][NextParse]_vars

\* ------------------------------------------------------------- properties
HasResponded(q, status, body) == q.responses = <<[status |-> status, body |-> body]>>
Finished(r) == req[r].kind # "idle" /\ req[r].pc = "done"

\* the secret the deployment is configured with: the stored instance's, else
\* the environment's
ConfiguredSecret ==
    IF IsSome(stored) /\ ~Falsy(The(stored).appSecret)
    THEN The(stored).appSecret ELSE env.META_APP_SECRET

\* the header is "sha256=<hex>" or the bare "<hex>", and <hex> is the digest
HeaderCarries(h, digest) == h.prefixes <= 1 /\ h.hex = digest

\* C1: signature verification follows the truth table. With no secret
\* configured the POST passes with or without a header; with a secret and no
\* header it is rejected; with a secret and a header it passes if and only if
\* the header's hex digest is HMAC-SHA256(secret, the raw body handed to the
\* verifier), so a digest made with another key or over other bytes fails.
C1_SignatureTruthTable ==
    IsSome(sigReq) /\ The(sigReq).verdict # "error" =>
        LET r == The(sigReq)
            secret == ConfiguredSecret
            passes == r.verdict = "pass"
        IN /\ Falsy(secret) => passes
           /\ ~Falsy(secret) /\ ~IsSome(r.header) => ~passes
           /\ ~Falsy(secret) /\ IsSome(r.header) =>
                (passes <=> HeaderCarries(The(r.header), Hmac(secret, r.signed)))

\* a secret is configured and a POST whose header carries the right digest
\* has passed
C1_SignedPostPassed ==
    /\ IsSome(sigReq)
    /\ ~Falsy(ConfiguredSecret)
    /\ IsSome(The(sigReq).header)
    /\ The(sigReq).verdict = "pass"
    /\ The(The(sigReq).header).prefixes = 1

\* C2: when signature verification fails on an event POST, the request is
\* answered 401 "Invalid signature", and it creates no conversation, no
\* message and no broadcast.
C2_SignatureFailureAnswers401 ==
    \A r \in Requests :
        Finished(r) /\ req[r].sigFailed =>
            /\ HasResponded(req[r], 401, "Invalid signature")
            /\ req[r].nConvs = 0 /\ req[r].nMsgs = 0 /\ req[r].bcast = <<>>

\* C3: whenever the signature of a POST is verified, the digest is computed
\* over the exact body bytes received.
C3_SignedOverReceivedBytes ==
    IsSome(sigReq) /\ The(sigReq).checked => The(sigReq).signed = The(sigReq).bytes

\* C4: a request whose conversation insert hits the uniqueness constraint
\* (a concurrent first contact) is attached to the existing conversation and
\* answers no 500.
C4_RaceReconciled ==
    \A r \in Requests :
        req[r].conflict =>
            /\ req[r].conv # 0
            /\ \A i \in 1..Len(req[r].responses) : req[r].responses[i].status # 500

\* C5: at most one conversation exists per phone, in every reachable state.
C5_OneConversationPerPhone ==
    \A c \in conversations, d \in conversations : c.phone = d.phone => c = d

\* two requests raced on a first contact: one inserted the conversation, the
\* other's insert was refused
C5_ConcurrentFirstContact ==
    \E r \in Requests, s \in Requests :
        /\ r # s
        /\ req[r].nConvs = 1
        /\ req[s].conflict
        /\ \E c \in conversations : c.id = req[r].conv

\* C6: the stored lastAt of a conversation never moves to an earlier value
\* than it held before.
C6_LastAtMonotonic ==
    [][\A c \in conversations : \A d \in conversations' :
          d.id = c.id => d.lastAt >= c.lastAt]_vars

\* C7: a journal write that throws does not change the response: the request
\* is answered once, with the status it was about to send.
C7_JournalFailureKeepsResponse ==
    \A r \in Requests :
        Finished(r) /\ req[r].journalThrew # 0 =>
            /\ Len(req[r].responses) = 1
            /\ req[r].responses[1].status = req[r].journalThrew

\* C8: every handshake GET and event POST that has been handled to its end
\* has received exactly one response.
C8_ExactlyOneResponse ==
    \A r \in Requests : Finished(r) => Len(req[r].responses) = 1

\* a GET with hub.mode=subscribe and a challenge, or a POST
JournalledKind(q) ==
    \/ q.kind = "event"
    \/ q.kind = "verify" /\ q.query.mode = "subscribe" /\ q.query.challenge

Senders(events) == {events[i].from : i \in 1..Len(events)}

\* C10: an event POST answered 200 parsed N events; with N >= 1 the body is
\* "ok" and the request created N inbound messages, N journal entries and N
\* message_incoming broadcasts, at most one conversation per sender, and
\* every sender has a conversation; with N = 0 the body is "ok - no events"
\* and the request made one journal entry and no conversation, message or
\* broadcast.
C10_OkCounts ==
    \A r \in Requests :
        LET q == req[r]
            events == parseIncoming(ParsedBodyOf("json", q.bytes))
            N == Len(events)
        IN q.kind = "event" /\ q.pc = "done" /\ Len(q.responses) = 1
             /\ q.responses[1].status = 200 =>
            IF N >= 1
            THEN /\ q.responses[1].body = "ok"
                 /\ q.nMsgs = N /\ q.nJournal = N /\ Len(q.bcast) = N
                 /\ \A i \in 1..N : q.bcast[i].event = "message_incoming"
                 /\ q.nConvs <= Cardinality(Senders(events))
                 /\ \A p \in Senders(events) : \E c \in conversations : c.phone = p
            ELSE /\ q.responses[1].body = "ok - no events"
                 /\ q.nJournal = 1
                 /\ q.nMsgs = 0 /\ q.nConvs = 0 /\ q.bcast = <<>>

\* one POST with two messages answered "ok" after creating a conversation,
\* another with none answered "ok - no events"
C10_TwoEventsAndNoEvents ==
    \E r \in Requests, s \in Requests :
        /\ HasResponded(req[r], 200, "ok")
        /\ req[r].nMsgs = 2 /\ req[r].nConvs >= 1
        /\ HasResponded(req[s], 200, "ok - no events")

\* the verify token the deployment is configured with: the stored
\* instance's, else the environment's
ConfiguredToken ==
    IF IsSome(stored) /\ The(stored).webhookVerifyToken # NULL
    THEN The(stored).webhookVerifyToken ELSE env.META_VERIFY_TOKEN

\* the instance in force is disabled or lacks a credential
InstanceUnusable ==
    IF IsSome(stored)
    THEN ~The(stored).isActive \/ Falsy(The(stored).accessToken)
           \/ Falsy(The(stored).phoneNumberId)
    ELSE (~Falsy(env.META_TOKEN) \/ ~Falsy(env.META_PHONE_NUMBER_ID))
           /\ (Falsy(env.META_TOKEN) \/ Falsy(env.META_PHONE_NUMBER_ID))

\* a handshake attempt that ran to its end with every storage call succeeding
HandshakeDone(r) ==
    /\ Finished(r) /\ req[r].kind = "verify"
    /\ req[r].query.mode = "subscribe" /\ req[r].query.challenge
    /\ ~req[r].storageThrew /\ req[r].journalThrew = 0

\* the three outcomes of the handshake, by the configured token
HandshakeTable(q) ==
    IF Falsy(ConfiguredToken)
    THEN HasResponded(q, 500, "Verify token is not configured")
    ELSE IF q.query.token = ConfiguredToken
    THEN HasResponded(q, 200, "challenge")
    ELSE HasResponded(q, 403, "Forbidden")

NoIngestEffect(q) == q.nConvs = 0 /\ q.nMsgs = 0 /\ q.bcast = <<>>

RECURSIVE LeadLen(_)
LeadLen(s) == IF s = <<>> \/ Head(s) = SLASH THEN 0 ELSE 1 + LeadLen(Tail(s))

RECURSIVE Segments(_)
Segments(s) ==
    IF s = <<>> THEN <<>>
    ELSE IF Head(s) = SLASH THEN Segments(Tail(s))
    ELSE <<SubSeq(s, 1, LeadLen(s))>> \o Segments(SubSeq(s, LeadLen(s) + 1, Len(s)))

\* two paths name the same place: equal up to repeated and trailing slashes
SamePath(a, b) == Segments(a) = Segments(b)

WebhookHandlers == {"verify", "event", "other"}

\* C12: a request whose path matches the configured webhook path is taken by
\* the handshake handler on GET, by the event handler on POST and answered
\* 405 on any other method; a request whose path does not match is taken by
\* none of the three and reaches the later routes (POST /webhook/test and
\* POST /webhook/debug among them).
C12_RoutingByPathAndMethod ==
    IsSome(routed) =>
        LET q == The(routed) IN
        IF SamePath(q.path, q.configured)
        THEN q.handler = (IF q.method = "GET" THEN "verify"
                          ELSE IF q.method = "POST" THEN "event" ELSE "other")
        ELSE /\ q.handler \notin WebhookHandlers
             /\ q.method = "POST" /\ q.path = TestPath => q.handler = "test"
             /\ q.method = "POST" /\ q.path = DebugPath => q.handler = "debug"

\* a POST written with a doubled or trailing slash reached the event handler
C12_SlashVariantDispatched ==
    /\ IsSome(routed)
    /\ The(routed).handler = "event"
    /\ The(routed).path # The(routed).configured

C14_NormalizeIdempotent ==
    IsSome(calc) /\ The(calc).stage = 2 => The(calc).twice = The(calc).once

\* no null element anywhere in the payload
NoNulls(payload) ==
    \A i \in 1..Len(payload.entry) :
        LET entry == payload.entry[i] IN
        /\ ~IsNull(entry)
        /\ \A j \in 1..Len(entry.changes) :
             LET change == entry.changes[j] IN
             /\ ~IsNull(change)
             /\ \A k \in 1..Len(change.messages) : ~IsNull(change.messages[k])

\* no message can be reached: on every way down, entry, changes, value or
\* messages is missing (or the list is empty)
NothingToParse(payload) ==
    /\ NoNulls(payload)
    /\ \/ ~payload.hasEntry
       \/ \A i \in 1..Len(payload.entry) :
            \/ ~payload.entry[i].hasChanges
            \/ \A j \in 1..Len(payload.entry[i].changes) :
                 LET change == payload.entry[i].changes[j] IN
                 ~change.hasValue \/ ~change.hasMessages \/ change.messages = <<>>

\* C15: parseIncoming returns the empty list and does not throw for a
\* payload in which entry, changes, value or messages is missing on every way
\* down to a message.
C15_MissingLevelsParseToNothing ==
    IsSome(calc) /\ The(calc).stage = 1 /\ NothingToParse(The(calc).payload) =>
        ~The(calc).threw /\ The(calc).events = <<>>

\* a payload whose second entry holds a change without value was parsed
C15_ChangeWithoutValueParsed ==
    /\ IsSome(calc) /\ The(calc).stage = 1
    /\ The(calc).payload = Envelope(TRUE, <<Entry(FALSE, <<>>),
                                           Entry(TRUE, <<Change(FALSE, FALSE, <<>>)>>)>>)
    /\ The(calc).events = <<>>

RecognizedTypes == {"text", "image", "video", "document", "audio"}

\* C16: parseIncoming emits events only for messages of a recognized
\* subtype.
C16_UnrecognizedSkipped ==
    IsSome(calc) /\ The(calc).stage = 1 =>
        \A i \in 1..Len(The(calc).events) :
            The(calc).events[i].raw.type \in RecognizedTypes

\* a reply target the send endpoint has to refuse: no such message, a
\* message of another conversation, or a message that is not inbound
BadTarget(messageTarget, conversationId) ==
    \/ ~IsSome(messageTarget)
    \/ The(messageTarget).conversationId # conversationId
    \/ The(messageTarget).direction # "inbound"

\* the request is answered 400, exactly once
Refused(q) ==
    /\ q.pc = "done"
    /\ Len(q.responses) = 1
    /\ q.responses[1].status = 400

\* the message rows request r has inserted
RowsOf(r) == {m \in messages : m.id \in {RowId(r, k) : k \in 1..2}}

\* C17: a send whose replyToMessageId names a message that does not exist,
\* a message of another conversation than the destination, or an outbound
\* message is answered 400, and it creates no message row: the look-up of
\* such a target ends the request with 400 and leaves the messages alone,
\* and a send answered 400 has inserted no message.
C17_BadReplyTargetRefused ==
    /\ [](\A r \in Requests :
            (req[r].kind = "send" /\ Refused(req[r]))
                => (req[r].nMsgs = 0 /\ RowsOf(r) = {}))
    /\ [][\A r \in Requests :
            (/\ At(r, "send", "replyTarget")
             /\ req'[r] # req[r]
             /\ dbUp
             /\ BadTarget(getMessageById(messages, req[r].replyTo), req[r].conv))
                => (Refused(req'[r]) /\ messages' = messages)]_vars

\* a reply to a message the agent sent before is refused and adds no row
C17_OutboundTargetRefused ==
    /\ req[1].kind = "send" /\ HasResponded(req[1], 200, "ok")
    /\ req[2].kind = "send" /\ Refused(req[2])
    /\ req[2].replyTo = req[1].msg
    /\ req[2].responses[1].body = "You can only reply to incoming messages."
    /\ \E m \in messages : m.id = req[2].replyTo /\ m.direction = "outbound"

\* C18: in every reachable state every message whose replyToMessageId is
\* set references a message that is inbound and belongs to the same
\* conversation as the reply, whatever the interleaving of sends, inbound
\* messages and deletions of messages and conversations.
C18_RepliesPointAtInboundOfSameConversation ==
    \A m \in messages :
        m.replyTo # 0 =>
            \E t \in messages : /\ t.id = m.replyTo
                                /\ t.direction = "inbound"
                                /\ t.conversationId = m.conversationId

\* a reply is stored next to the inbound message it answers, in a
\* conversation that holds nothing else
C18_ReplyStoredNextToTarget ==
    \E m \in messages :
        /\ m.replyTo # 0
        /\ m.direction = "outbound"
        /\ \E t \in messages : t.id = m.replyTo
        /\ Cardinality(messages) = 2

\* request r is a finished send whose provider.send call was rejected
SendFailedAtProvider(r) ==
    /\ req[r].kind = "send"
    /\ req[r].pc = "done"
    /\ req[r].sendThrew

\* the draft of request r was stored as failed and returned with ok:true
DraftKeptAsFailed(r) ==
    /\ HasResponded(req[r], 200, "ok")
    /\ req[r].nMsgs = 1
    /\ req[r].status = "failed"
    /\ \A m \in RowsOf(r) : m.status = "failed" /\ m.id = req[r].msg
    /\ req[r].bcast = <<[event |-> "message_outgoing", id |-> req[r].msg]>>

\* C19 as stated: whenever provider.send fails in a send that passed
\* validation, the draft is stored with status "failed" and the response
\* is ok:true with that message; the draft is never dropped.
C19_FailedSendAlwaysKept ==
    \A r \in Requests : SendFailedAtProvider(r) => DraftKeptAsFailed(r)

\* C19, amended: the same, unless the insert of the draft was refused
\* because the conversation or the reply target had been deleted in the
\* meantime; then the request answers 500 and no row is written.
C19_FailedSendKeptUnlessTargetGone ==
    \A r \in Requests :
        SendFailedAtProvider(r) =>
            IF req[r].fkViolation
            THEN HasResponded(req[r], 500, "error") /\ req[r].nMsgs = 0
            ELSE DraftKeptAsFailed(r)

\* a reply whose provider call failed is stored as failed next to its target
C19_FailedReplyStored ==
    \E r \in Requests :
        /\ SendFailedAtProvider(r)
        /\ req[r].replyTo # 0
        /\ stored = Some(StoredFull)
        /\ \E m \in messages : m.id = req[r].msg /\ m.status = "failed"
                                /\ m.replyTo = req[r].replyTo

\* request r is a finished test injection that read the switch as off
TestRefused(r) ==
    /\ req[r].kind = "test" /\ req[r].pc = "done"
    /\ req[r].readFlag /\ req[r].flagRead = Some(FALSE)

\* request r is a finished test injection with a `from` that read the
\* switch as on (or unset), met no storage failure and lost no insert race
TestAdmitted(r) ==
    /\ req[r].kind = "test" /\ req[r].pc = "done"
    /\ req[r].readFlag /\ req[r].flagRead # Some(FALSE)
    /\ ~Falsy(req[r].phone)
    /\ ~req[r].storageThrew /\ ~req[r].conflict

\* C20: a test injection that finds the switch off answers 403 and makes
\* no conversation, message, journal entry or broadcast; one that finds it
\* on and carries `from` stores one inbound message in the conversation of
\* that phone and, its journal entry written, broadcasts it and answers
\* 200; no test injection ever calls the provider.
C20_TestSwitchGatesInjection ==
    \A r \in Requests :
        LET q == req[r] IN
        /\ q.kind = "test" => q.nProvider = 0
        /\ TestRefused(r) =>
              /\ HasResponded(q, 403, "Test webhooks are disabled")
              /\ q.nConvs = 0 /\ q.nMsgs = 0 /\ q.nJournal = 0 /\ q.bcast = <<>>
              /\ RowsOf(r) = {}
        /\ TestAdmitted(r) =>
              /\ q.nMsgs = 1
              /\ \E m \in RowsOf(r), c \in conversations :
                    /\ m.id = q.msg /\ m.direction = "inbound" /\ m.replyTo = 0
                    /\ m.conversationId = c.id /\ c.phone = q.phone
              /\ q.journalThrew = 0 =>
                    /\ HasResponded(q, 200, "ok")
                    /\ q.nJournal = 1
                    /\ q.bcast = <<[event |-> "message_incoming", id |-> q.msg]>>

\* the switch was turned off between two injections: the first was
\* ingested, the second refused
C20_IngestedThenRefused ==
    /\ TestAdmitted(1) /\ HasResponded(req[1], 200, "ok")
    /\ TestRefused(2) /\ ~Falsy(req[2].phone)
    /\ Cardinality(messages) = 1
    /\ apiControls = Some(FALSE)

\* the publishes connection c has received, by their number
ReceivedBy(c) == {ws.inbox[c][i].n : i \in 1..Len(ws.inbox[c])}

\* C21: a publish writes the envelope, serialized once from {event, data},
\* exactly once to every registered connection that is open when it is
\* called and to no other connection; no connection holds the same publish
\* twice; with no subscriber the publish completes and writes nothing.
C21_PublishReachesOpenSubscribersOnce ==
    /\ [](\A c \in Conns :
            /\ Cardinality(ReceivedBy(c)) = Len(ws.inbox[c])
            /\ \A i \in 1..Len(ws.inbox[c]) : ws.inbox[c][i].n <= ws.published)
    /\ [][ws'.published # ws.published =>
            /\ ws'.published = ws.published + 1
            /\ \A c \in Conns :
                 ws'.inbox[c] =
                    IF c \in ws.clients /\ ws.readyState[c] = "OPEN"
                    THEN Append(ws.inbox[c],
                                [n |-> ws'.published,
                                 text |-> JsonStringify([event |-> ws'.last.event,
                                                         data |-> ws'.last.data])])
                    ELSE ws.inbox[c]]_vars

\* a first publish met no subscriber; the second reached the open
\* connection and skipped the registered one that is closing
C21_OpenServedClosingSkipped ==
    /\ ws.published = 2
    /\ ReceivedBy("a") = {2}
    /\ ReceivedBy("b") = {}
    /\ ws.clients = {"a", "b"}
    /\ ws.readyState["b"] = "CLOSING"

\* C24: the registry holds exactly the connections that have connected
\* and have not yet emitted close or error, after any sequence of connect,
\* close and error events.
C24_RegistryIsTheLiveConnections ==
    ws.clients = ws.connected \ ws.ended

\* one connection emitted error and then close and is gone from the
\* registry; the other is still registered
C24_ErrorThenCloseDeregistered ==
    /\ "b" \in ws.errored
    /\ ws.readyState["b"] = "CLOSED"
    /\ ws.clients = {"a"}

\* the stored instance after the k-th write of an admin update
ConfigAt(k) == IF k = 0 THEN The(BootInstance) ELSE The(adm.writes[k])

\* the verify token and the app secret in force under stored instance cfg
VerifyTokenUnder(cfg) ==
    IF Falsy(cfg.webhookVerifyToken) THEN env.META_VERIFY_TOKEN ELSE cfg.webhookVerifyToken
AppSecretUnder(cfg) ==
    IF Falsy(cfg.appSecret) THEN env.META_APP_SECRET ELSE cfg.appSecret

\* C22: every handshake, event POST and send reads the instance when it
\* runs: the values it uses are those of an update at least as late as the
\* last update completed before the request started, so an update that has
\* completed is seen by every later request; the handshake compares with
\* the verify token and the event POST verifies with the app secret of
\* that instance, and a send hands its access token to the provider.
C22_RequestsUseTheCurrentInstance ==
    \A r \in Requests :
        LET q == req[r] IN
        q.nProvider > 0 =>
            LET cfg == ConfigAt(q.readWrites) IN
            /\ q.readWrites >= q.startDone
            /\ IsSome(q.instance)
            /\ The(q.instance).accessToken = cfg.accessToken
            /\ The(q.instance).webhookVerifyToken = cfg.webhookVerifyToken
            /\ The(q.instance).appSecret = cfg.appSecret
            /\ The(q.instance).isActive = cfg.isActive
            /\ IsSome(q.provider) <=> cfg.isActive
            /\ IsSome(q.provider) => The(q.provider).token = cfg.accessToken
            /\ (q.kind = "verify" /\ cfg.isActive) =>
                  (q.intended = 200 <=> q.query.token = VerifyTokenUnder(cfg))
            /\ (q.kind = "event" /\ cfg.isActive) =>
                  (q.sigFailed <=> ~HeaderCarries(The(q.sig),
                                                  Hmac(AppSecretUnder(cfg), q.bytes)))

\* after a completed rotation the old verify token is refused and the
\* new one accepted
C22_NewTokenAcceptedOldRefused ==
    /\ adm.nDone = 1 /\ adm.writes = <<Some([StoredFull EXCEPT
                                          !.accessToken = "tok2",
                                          !.webhookVerifyToken = "xyz",
                                          !.appSecret = "k2"])>>
    /\ req[1].kind = "verify" /\ req[1].startDone = 1
    /\ req[1].query.token = "abc" /\ HasResponded(req[1], 403, "Forbidden")
    /\ req[2].kind = "verify" /\ req[2].startDone = 1
    /\ req[2].query.token = "xyz" /\ req[2].intended = 200 /\ req[2].pc = "done"

\* C23: the messages of one event POST are ingested one at a time in array
\* order. While the request works on its k-th message the k-1 messages
\* before it have their row, journal entry and broadcast and no later
\* message has anything; the k-th row, journal entry and broadcast are made
\* in this order (the journal entry of a failure comes on top); the rows
\* and broadcasts of the request are numbered in array order, the k-th row
\* lying in the conversation of the k-th sender.
C23_MessagesIngestedInArrayOrder ==
    \A r \in Requests :
        LET q == req[r]
            events == parseIncoming(ParsedBodyOf("json", q.bytes))
            done == Len(q.bcast)
        IN q.kind = "event" /\ q.idx >= 1 =>
            /\ q.idx <= Len(events)
            /\ done \in {q.idx - 1, q.idx}
            /\ q.nMsgs \in {done, done + 1} /\ q.nMsgs <= q.idx
            /\ (q.pc \notin {"logErr", "done"} \/ HasResponded(q, 200, "ok")) =>
                  (q.nJournal \in {done, done + 1} /\ q.nJournal <= q.nMsgs)
            /\ \A k \in 1..done :
                  q.bcast[k] = [event |-> "message_incoming", id |-> RowId(r, k)]
            /\ \A k \in 1..q.nMsgs :
                  \E m \in messages, c \in conversations :
                      /\ m.id = RowId(r, k) /\ m.conversationId = c.id
                      /\ c.phone = events[k].from
            /\ (q.pc = "done" /\ HasResponded(q, 200, "ok")) => done = Len(events)

\* a POST with two messages of different senders is through: two rows,
\* two broadcasts, first sender first
C23_TwoMessagesInOrder ==
    \E r \in Requests :
        /\ req[r].kind = "event" /\ HasResponded(req[r], 200, "ok")
        /\ req[r].bcast = <<[event |-> "message_incoming", id |-> RowId(r, 1)],
                            [event |-> "message_incoming", id |-> RowId(r, 2)]>>
        /\ \E m \in messages, c \in conversations :
              m.id = RowId(r, 2) /\ m.conversationId = c.id /\ c.phone = "p2"

\* request r is a finished send whose provider.send call returned
ProviderAccepted(r) ==
    /\ req[r].kind = "send"
    /\ req[r].pc = "done"
    /\ req[r].status = "sent"

\* C25: every send the provider accepted has stored a message row with
\* status "sent", also when an admin deletes the destination conversation
\* or the reply target between validation and the insert.
C25_AcceptedSendIsStored ==
    \A r \in Requests :
        ProviderAccepted(r) =>
            /\ req[r].nMsgs = 1
            /\ HasResponded(req[r], 200, "ok")

\* no PUT /api/admin/webhook-config is in flight and one has been handled
ConfigPutsComplete ==
    /\ \A a \in Admins : adm.configPuts[a].pc \in {"idle", "done"}
    /\ \E a \in Admins : adm.configPuts[a].pc = "done"

\* C26: once every concurrently handled PUT /api/admin/webhook-config has
\* completed, the in-memory path used for routing equals the normalized
\* path persisted in the settings store.
C26_MemoryPathIsPersistedPath ==
    (ConfigPutsComplete /\ IsSome(adm.savedPath)) =>
        metaWebhookPath = normalizeWebhookPath(The(adm.savedPath))

\* C27: a send answered 400 or 404 has created no conversation and no
\* message, has not called the provider and has broadcast nothing.
C27_RejectedSendChangesNothing ==
    \A r \in Requests :
        LET q == req[r] IN
        (/\ q.kind = "send"
         /\ q.pc = "done"
         /\ Len(q.responses) = 1
         /\ q.responses[1].status \in {400, 404}) =>
            /\ q.nConvs = 0
            /\ q.nMsgs = 0
            /\ q.nProvider = 0
            /\ q.bcast = <<>>

\* the ids of the message rows request r has inserted so far
InsertedBy(r) == {RowId(r, k) : k \in 1..req[r].nMsgs}

\* C28: every message_incoming or message_outgoing broadcast of a request
\* names a message row that the request had inserted before, each row is
\* announced at most once, and a request whose insert failed has announced
\* nothing for it: there are never more broadcasts than inserted rows.
C28_BroadcastOnlyAfterInsert ==
    \A r \in Requests :
        LET q == req[r] IN
        /\ Len(q.bcast) <= q.nMsgs
        /\ \A i \in 1..Len(q.bcast) :
              /\ q.bcast[i].event \in {"message_incoming", "message_outgoing"}
              /\ q.bcast[i].id \in InsertedBy(r)
              /\ \A j \in 1..Len(q.bcast) : q.bcast[j].id = q.bcast[i].id => j = i

\* one request has inserted and then announced its message, and another
\* one whose insert was refused has answered 500 and announced nothing
C28_AnnouncedAndSilentFailure ==
    \E r1, r2 \in Requests :
        /\ req[r1].pc = "done" /\ req[r1].nMsgs = 1 /\ Len(req[r1].bcast) = 1
        /\ req[r2].pc = "done" /\ req[r2].fkViolation /\ req[r2].bcast = <<>>

\* the finished deletions of message id that met no storage failure
DeletersOf(id) ==
    {d \in Deleters : adm.deletes[d].id = id /\ adm.deletes[d].pc = "done"
                                             /\ ~adm.deletes[d].threw}

Answered(d, status) == adm.deletes[d].responses = <<[status |-> status]>>

\* C29: of the DELETE /api/messages/:id requests for one stored message,
\* at most one answers 200; a request answers 200 with exactly one
\* message_deleted broadcast for that message, or 404 with no broadcast;
\* and once the message is gone and its deleters have finished, exactly one
\* of them has answered 200.
C29_OneDeleteWins ==
    \A id \in StoredMessageIds :
        LET won == {d \in DeletersOf(id) : Answered(d, 200)} IN
        /\ Cardinality(won) <= 1
        /\ \A d \in DeletersOf(id) :
              \/ /\ Answered(d, 200)
                 /\ adm.deletes[d].bcast = <<[event |-> "message_deleted", id |-> id]>>
              \/ /\ Answered(d, 404)
                 /\ adm.deletes[d].bcast = <<>>
        /\ (/\ ~\E m \in messages : m.id = id
            /\ \A d \in Deleters : adm.deletes[d].id = id =>
                                       adm.deletes[d].pc = "done") =>
               Cardinality(won) = 1

\* three overlapping deletions of message 11: one answered 200, two 404
C29_ThreeDeletesOneWinner ==
    /\ \A d \in Deleters :
          /\ adm.deletes[d].id = 11
          /\ adm.deletes[d].pc = "done"
          /\ ~adm.deletes[d].threw
    /\ Cardinality({d \in Deleters : Answered(d, 404)}) = 2

\* C30: under two provider configurations that differ only in the values
\* of secrets set in both, GET and PUT /api/admin/whatsapp/default-instance
\* answer with identical instance objects.
C30_ResponsesHideSecretValues ==
    IsSome(calc) =>
        LET c == The(calc) IN
        /\ c.stage >= 1 => c.getA = c.getB
        /\ c.stage = 2 => c.putA = c.putB

\* two stored instances with three different secrets each were read and
\* updated, and the responses carry an instance with the three flags set
C30_DifferentSecretsCompared ==
    /\ IsSome(calc)
    /\ The(calc).stage = 2
    /\ LET c == The(calc) IN
       /\ IsSome(c.a.st) /\ IsSome(c.b.st)
       /\ ~Falsy(The(c.a.st).webhookVerifyToken) /\ ~Falsy(The(c.a.st).appSecret)
       /\ The(c.a.st).accessToken # The(c.b.st).accessToken
       /\ The(c.a.st).webhookVerifyToken # The(c.b.st).webhookVerifyToken
       /\ The(c.a.st).appSecret # The(c.b.st).appSecret
       /\ c.putA.status = 200
       /\ IsSome(c.getA.instance)
       /\ The(c.getA.instance).appSecretConfigured
       /\ The(c.putA.instance).webhookVerifyTokenConfigured
====
